---- MODULE Spec2Model ----
(***************************************************************************)
(* Verification model of the "Never Forget" critical-task engine.          *)
(*                                                                         *)
(* Two managers are modelled side by side and driven by the same commands: *)
(*   - the array-based NeverForgetManager   (src/lib/never-forget.js)      *)
(*   - the Map-based NeverForgetManager     (src/unnamed/part_000)         *)
(* Time is counted in whole hours.  An optional value (null or a value) is *)
(* the empty sequence or a one-element sequence.  Text is a sequence of    *)
(* characters, so that trim() is computed and not assumed.                 *)
(***************************************************************************)
EXTENDS Integers, Sequences, FiniteSets, TLC

VARIABLES
    now,                \* wall clock, hours
    criticalTasks,      \* array manager: this.criticalTasks
    criticalTasksMap,   \* Map manager: this.criticalTasksMap, in insertion order
    nextId,             \* number of identifiers handed out by addCriticalTask
    ret,                \* outcome of the last operation on the array manager
    retMap,             \* outcome of the last operation on the Map manager
    removed,            \* identifiers removed by clearCompleted on the array manager
    removedMap,         \* identifiers removed by clearCompleted on the Map manager
    probe,              \* calculator check: the task snapshot under evaluation
    calc,               \* calculator check: the last values computed for probe
    zepCache,           \* the ZepClientLRUCache instance
    used,               \* history: keys of the stored entries, most recently used first
    lastSet,            \* history: instant of the last set of each stored entry
    calls,              \* wrapped method: calls of the original in flight, last return
    pass                \* single-pass processor under check and what it returned

vars == <<now, criticalTasks, criticalTasksMap, nextId, ret, retMap,
          removed, removedMap, probe, calc, zepCache, used, lastSet, calls, pass>>

storeVars == <<criticalTasks, criticalTasksMap, nextId, ret, retMap, removed, removedMap>>

calcVars == <<probe, calc>>

cacheVars == <<zepCache, used, lastSet, calls>>

libVars == <<cacheVars, pass>>

-----------------------------------------------------------------------------
(* Bounds of the model *)

MaxTasks == 2          \* identifiers addCriticalTask may hand out
MaxTime == 1           \* last hour the clock reaches while tasks are queried
MaxSnoozes == 1        \* snoozes per task in the store
MaxNotes == 1          \* notes per task in the store
MaxProbeSnoozeCount == 6   \* snoozeCount of a calculator probe
MaxProbeDeadline == 250    \* latest deadline hour of a calculator probe
ProbeNow == 75             \* hour at which a calculator probe is evaluated
MaxRepeatSnoozes == 2      \* snoozes of the one task that is snoozed repeatedly
MaxRepeatNotes == 2        \* notes of the one task that is followed through its life

MaxCacheSize == 2          \* maxSize of the cache under check
CacheTtl == 1              \* ttl of the cache under check, in clock units
MaxCacheTime == 2          \* last instant the clock reaches while the cache is used
MaxCacheGets == 3          \* lookups (hits and misses) of the cache under check
MaxEvictions == 2          \* evictions of the cache under check
MaxPending == 2            \* calls of the original method in flight at once

MaxDataLen == 2            \* items in the data given to the single-pass processor
MaxItem == 2               \* largest item in that data
MaxChainLen == 3           \* operations chained on the single-pass processor

-----------------------------------------------------------------------------
(* Values *)

NULL == <<>>

Some(v) == <<v>>

Max(a, b) == IF a >= b THEN a ELSE b

Abs(a) == IF a < 0 THEN -a ELSE a

\* a JavaScript value handed to the store: text, or something that is not text
JsString(chars) == [type |-> "string", chars |-> chars]

JsNumber == [type |-> "number", chars |-> <<>>]

JsUndefined == [type |-> "undefined", chars |-> <<>>]

JsNull == [type |-> "null", chars |-> <<>>]

RECURSIVE TrimStart(_)
TrimStart(s) == IF s # <<>> /\ Head(s) = " " THEN TrimStart(Tail(s)) ELSE s

RECURSIVE TrimEnd(_)
TrimEnd(s) ==
    IF s # <<>> /\ s[Len(s)] = " " THEN TrimEnd(SubSeq(s, 1, Len(s) - 1)) ELSE s

\* String.prototype.trim
trim(s) == TrimEnd(TrimStart(s))

\* A date argument is given by what new Date(x).getTime() makes of it: NULL for
\* NaN (Invalid Date), Some(t) for the instant t.  A stored ISO string denotes
\* the instant it was produced from.

-----------------------------------------------------------------------------
(* Scoring & escalation calculator *)

PRIORITY_WEIGHTS == [critical |-> 100, high |-> 50, medium |-> 25, low |-> 10]

ESCALATION_STAGES == {"normal", "attention", "urgent", "critical", "emergency"}

\* the suppression of an active snooze applied after the snooze-count term
calculatePriorityScoreSuppressLast(task, t) ==
    LET importanceScore ==
            IF task.importance \in DOMAIN PRIORITY_WEIGHTS
                THEN PRIORITY_WEIGHTS[task.importance]
                ELSE PRIORITY_WEIGHTS.medium
        hoursUntilDeadline == task.deadline[1] - t
        deadlineTerm ==
            IF task.deadline = NULL THEN 0
            ELSE IF hoursUntilDeadline < 0
                THEN 200 + (Abs(hoursUntilDeadline) * 10)
            ELSE IF hoursUntilDeadline < 24 THEN 150
            ELSE IF hoursUntilDeadline < 72 THEN 100
            ELSE IF hoursUntilDeadline < 168 THEN 50
            ELSE 0
        hoursSinceCreation == t - task.createdAt
        recency ==
            IF hoursSinceCreation < 1 THEN 30
            ELSE IF hoursSinceCreation < 24 THEN 10
            ELSE 0
        s1 == importanceScore + deadlineTerm + recency + (task.snoozeCount * 20)
    IN  IF task.snoozedUntil # NULL /\ task.snoozedUntil[1] > t
            THEN Max(0, s1 - 100)
            ELSE Max(0, s1)

\* every snooze counted against the task instead of for it
calculatePriorityScoreCountPenalty(task, t) ==
    LET importanceScore ==
            IF task.importance \in DOMAIN PRIORITY_WEIGHTS
                THEN PRIORITY_WEIGHTS[task.importance]
                ELSE PRIORITY_WEIGHTS.medium
        hoursUntilDeadline == task.deadline[1] - t
        deadlineTerm ==
            IF task.deadline = NULL THEN 0
            ELSE IF hoursUntilDeadline < 0
                THEN 200 + (Abs(hoursUntilDeadline) * 10)
            ELSE IF hoursUntilDeadline < 24 THEN 150
            ELSE IF hoursUntilDeadline < 72 THEN 100
            ELSE IF hoursUntilDeadline < 168 THEN 50
            ELSE 0
        hoursSinceCreation == t - task.createdAt
        recency ==
            IF hoursSinceCreation < 1 THEN 30
            ELSE IF hoursSinceCreation < 24 THEN 10
            ELSE 0
        s1 == importanceScore + deadlineTerm + recency
        s2 == IF task.snoozedUntil # NULL /\ task.snoozedUntil[1] > t
                 THEN Max(0, s1 - 100)
                 ELSE s1
    IN  Max(0, s2 - (task.snoozeCount * 20))

calculatePriorityScore(task, t) ==
    LET importanceScore ==
            IF task.importance \in DOMAIN PRIORITY_WEIGHTS
                THEN PRIORITY_WEIGHTS[task.importance]
                ELSE PRIORITY_WEIGHTS.medium
        hoursUntilDeadline == task.deadline[1] - t
        deadlineTerm ==
            IF task.deadline = NULL THEN 0
            ELSE IF hoursUntilDeadline < 0
                THEN 200 + (Abs(hoursUntilDeadline) * 10)
            ELSE IF hoursUntilDeadline < 24 THEN 150
            ELSE IF hoursUntilDeadline < 72 THEN 100
            ELSE IF hoursUntilDeadline < 168 THEN 50
            ELSE 0
        hoursSinceCreation == t - task.createdAt
        recency ==
            IF hoursSinceCreation < 1 THEN 30
            ELSE IF hoursSinceCreation < 24 THEN 10
            ELSE 0
        s1 == importanceScore + deadlineTerm + recency
        s2 == IF task.snoozedUntil # NULL /\ task.snoozedUntil[1] > t
                 THEN Max(0, s1 - 100)
                 ELSE s1
        s3 == IF task.snoozeCount > 0 THEN s2 + (task.snoozeCount * 20) ELSE s2
    IN  Max(0, s3)

\* the emergency threshold of the overdue branch moved two hours later
determineEscalationStageLateEmergency(task, t) ==
    IF task.deadline = NULL
        THEN (IF task.snoozeCount >= 5 THEN "urgent" ELSE "normal")
    ELSE LET hoursUntilDeadline == task.deadline[1] - t
             hoursOverdue == Abs(hoursUntilDeadline)
         IN  IF hoursUntilDeadline < 0
                 THEN (IF hoursOverdue > 74 THEN "emergency"
                       ELSE IF hoursOverdue > 24 THEN "critical"
                       ELSE "urgent")
             ELSE IF hoursUntilDeadline < 6 THEN "critical"
             ELSE IF hoursUntilDeadline < 24 THEN "urgent"
             ELSE IF hoursUntilDeadline < 72 THEN "attention"
             ELSE IF task.snoozeCount >= 5 THEN "urgent"
             ELSE IF task.snoozeCount >= 3 THEN "attention"
             ELSE "normal"

\* the 72-hour comparison of the approaching branch made inclusive
determineEscalationStageInclusive(task, t) ==
    IF task.deadline = NULL
        THEN (IF task.snoozeCount >= 5 THEN "urgent" ELSE "normal")
    ELSE LET hoursUntilDeadline == task.deadline[1] - t
             hoursOverdue == Abs(hoursUntilDeadline)
         IN  IF hoursUntilDeadline < 0
                 THEN (IF hoursOverdue > 72 THEN "emergency"
                       ELSE IF hoursOverdue > 24 THEN "critical"
                       ELSE "urgent")
             ELSE IF hoursUntilDeadline < 6 THEN "critical"
             ELSE IF hoursUntilDeadline < 24 THEN "urgent"
             ELSE IF hoursUntilDeadline <= 72 THEN "attention"
             ELSE IF task.snoozeCount >= 5 THEN "urgent"
             ELSE IF task.snoozeCount >= 3 THEN "attention"
             ELSE "normal"

\* a task without a deadline snoozed five times or more escalates to critical
determineEscalationStageSnoozeCritical(task, t) ==
    IF task.deadline = NULL
        THEN (IF task.snoozeCount >= 5 THEN "critical" ELSE "normal")
    ELSE LET hoursUntilDeadline == task.deadline[1] - t
             hoursOverdue == Abs(hoursUntilDeadline)
         IN  IF hoursUntilDeadline < 0
                 THEN (IF hoursOverdue > 72 THEN "emergency"
                       ELSE IF hoursOverdue > 24 THEN "critical"
                       ELSE "urgent")
             ELSE IF hoursUntilDeadline < 6 THEN "critical"
             ELSE IF hoursUntilDeadline < 24 THEN "urgent"
             ELSE IF hoursUntilDeadline < 72 THEN "attention"
             ELSE IF task.snoozeCount >= 5 THEN "urgent"
             ELSE IF task.snoozeCount >= 3 THEN "attention"
             ELSE "normal"

determineEscalationStage(task, t) ==
    IF task.deadline = NULL
        THEN (IF task.snoozeCount >= 5 THEN "urgent" ELSE "normal")
    ELSE LET hoursUntilDeadline == task.deadline[1] - t
             hoursOverdue == Abs(hoursUntilDeadline)
         IN  IF hoursUntilDeadline < 0
                 THEN (IF hoursOverdue > 72 THEN "emergency"
                       ELSE IF hoursOverdue > 24 THEN "critical"
                       ELSE "urgent")
             ELSE IF hoursUntilDeadline < 6 THEN "critical"
             ELSE IF hoursUntilDeadline < 24 THEN "urgent"
             ELSE IF hoursUntilDeadline < 72 THEN "attention"
             ELSE IF task.snoozeCount >= 5 THEN "urgent"
             ELSE IF task.snoozeCount >= 3 THEN "attention"
             ELSE "normal"

generateVisualIndicators(task, t) ==
    LET escalation == determineEscalationStage(task, t)
    IN  CASE escalation = "emergency" ->
                [emoji |-> "siren", color |-> "#E53E3E", urgencyBar |-> 100,
                 pulseAnimation |-> TRUE, soundAlert |-> TRUE]
          [] escalation = "critical" ->
                [emoji |-> "exclamation", color |-> "#DD6B20", urgencyBar |-> 85,
                 pulseAnimation |-> TRUE, soundAlert |-> FALSE]
          [] escalation = "urgent" ->
                [emoji |-> "warning", color |-> "#D69E2E", urgencyBar |-> 65,
                 pulseAnimation |-> FALSE, soundAlert |-> FALSE]
          [] escalation = "attention" ->
                [emoji |-> "bell", color |-> "#3182CE", urgencyBar |-> 40,
                 pulseAnimation |-> FALSE, soundAlert |-> FALSE]
          [] OTHER ->
                [emoji |-> "memo", color |-> "#48BB78", urgencyBar |-> 20,
                 pulseAnimation |-> FALSE, soundAlert |-> FALSE]

\* uuidv4: distinct identifiers, derived from the creation counter
uuidStep(taskId, k) == (100 * taskId) + k

uuidNote(taskId, j) == (100 * taskId) + 10 + j

generateMicroSteps(taskId) ==
    << [id |-> uuidStep(taskId, 1), description |-> "review",
        completed |-> FALSE, duration |-> "2 min"],
       [id |-> uuidStep(taskId, 2), description |-> "break down",
        completed |-> FALSE, duration |-> "5 min"],
       [id |-> uuidStep(taskId, 3), description |-> "start easiest",
        completed |-> FALSE, duration |-> "10 min"] >>

\* the three assignments every recomputation of the derived fields performs
updateTaskMetrics(task, t) ==
    [task EXCEPT !.priorityScore = calculatePriorityScore(task, t),
                 !.escalationStage = determineEscalationStage(task, t),
                 !.visualIndicators = generateVisualIndicators(task, t)]

-----------------------------------------------------------------------------
(* Helpers shared by both managers *)

\* Array.prototype.find / Map.prototype.get by identifier: position, 0 if absent
IndexOfId(tasks, taskId) ==
    IF \E i \in 1..Len(tasks) : tasks[i].id = taskId
        THEN CHOOSE i \in 1..Len(tasks) :
                 tasks[i].id = taskId /\ \A j \in 1..(i - 1) : tasks[j].id # taskId
        ELSE 0

\* the last n elements instead of the first n
Slice0Tail(s, n) ==
    LET stop == IF n < 0 THEN Max(0, Len(s) + n) ELSE IF n > Len(s) THEN Len(s) ELSE n
    IN  SubSeq(s, Len(s) - stop + 1, Len(s))

\* Array.prototype.slice(0, n)
Slice0(s, n) ==
    LET stop == IF n < 0 THEN Max(0, Len(s) + n) ELSE IF n > Len(s) THEN Len(s) ELSE n
    IN  SubSeq(s, 1, stop)

\* insertion of x into a sequence already ordered by the comparator
\* (a, b) => b.priorityScore - a.priorityScore, after every element it does not precede
RECURSIVE InsertByScore(_, _)
InsertByScore(sorted, x) ==
    IF sorted = <<>> THEN <<x>>
    ELSE IF Head(sorted).priorityScore >= x.priorityScore
        THEN <<Head(sorted)>> \o InsertByScore(Tail(sorted), x)
        ELSE <<x>> \o sorted

\* Array.prototype.sort((a, b) => b.priorityScore - a.priorityScore), stable
RECURSIVE SortByScoreFrom(_, _)
SortByScoreFrom(s, acc) ==
    IF s = <<>> THEN acc ELSE SortByScoreFrom(Tail(s), InsertByScore(acc, Head(s)))

\* a manager that forgets to sort
sortByPriorityMissing(s) == s

sortByPriority(s) == SortByScoreFrom(s, <<>>)

\* How the last call ended: it returned, or it threw the named error.  A command
\* returns the stored task object itself, so what it returned is read from the
\* collection; what a query returns is the value of its operator.
Returned(op, id) == [op |-> op, id |-> id, ok |-> TRUE, error |-> "", count |-> 0]

Thrown(op, id, error) == [op |-> op, id |-> id, ok |-> FALSE, error |-> error, count |-> 0]

NoCall == Returned("none", 0)

-----------------------------------------------------------------------------
(* Array manager (lib/never-forget.js).  Every operation yields the new     *)
(* collection and what the call returned or threw.                          *)

Outcome(tasks, r) == [tasks |-> tasks, ret |-> r]

\* the title checked for emptiness before trimming only
addCriticalTaskUntrimmed(tasks, taskData, id, t) ==
    IF taskData.title.type = "undefined"
            \/ (taskData.title.type = "string" /\ taskData.title.chars = <<>>)
        THEN Outcome(tasks, Thrown("addCriticalTask", 0,
                     "Failed to add critical task: Task title is required"))
        ELSE IF taskData.title.type # "string"
            THEN Outcome(tasks, Thrown("addCriticalTask", 0,
                     "Failed to add critical task: taskData.title.trim is not a function"))
        ELSE LET task ==
                     [id |-> id,
                      title |-> trim(taskData.title.chars),
                      description |-> <<>>,
                      importance |-> IF taskData.importance = "" THEN "high"
                                     ELSE taskData.importance,
                      deadline |-> taskData.deadline,
                      createdAt |-> t,
                      updatedAt |-> t,
                      completed |-> FALSE,
                      completedAt |-> NULL,
                      snoozedUntil |-> NULL,
                      snoozeCount |-> 0,
                      snoozeHistory |-> <<>>,
                      microSteps |-> generateMicroSteps(id),
                      visualIndicators |-> NULL,
                      escalationStage |-> "normal",
                      priorityScore |-> 0,
                      notes |-> <<>>,
                      tags |-> <<>>]
                 measured == updateTaskMetrics(task, t)
             IN  Outcome(Append(tasks, measured),
                         Returned("addCriticalTask", id))

addCriticalTask(tasks, taskData, id, t) ==
    IF taskData.title.type = "undefined"
            \/ (taskData.title.type = "string" /\ taskData.title.chars = <<>>)
        THEN Outcome(tasks, Thrown("addCriticalTask", 0,
                     "Failed to add critical task: Task title is required"))
        ELSE IF taskData.title.type # "string"
            THEN Outcome(tasks, Thrown("addCriticalTask", 0,
                     "Failed to add critical task: taskData.title.trim is not a function"))
        ELSE IF trim(taskData.title.chars) = <<>>
            THEN Outcome(tasks, Thrown("addCriticalTask", 0,
                     "Failed to add critical task: Task title is required"))
        ELSE LET task ==
                     [id |-> id,
                      title |-> trim(taskData.title.chars),
                      description |-> <<>>,
                      importance |-> IF taskData.importance = "" THEN "high"
                                     ELSE taskData.importance,
                      deadline |-> taskData.deadline,
                      createdAt |-> t,
                      updatedAt |-> t,
                      completed |-> FALSE,
                      completedAt |-> NULL,
                      snoozedUntil |-> NULL,
                      snoozeCount |-> 0,
                      snoozeHistory |-> <<>>,
                      microSteps |-> generateMicroSteps(id),
                      visualIndicators |-> NULL,
                      escalationStage |-> "normal",
                      priorityScore |-> 0,
                      notes |-> <<>>,
                      tags |-> <<>>]
                 measured == updateTaskMetrics(task, t)
             IN  Outcome(Append(tasks, measured),
                         Returned("addCriticalTask", id))

getCriticalTasks(tasks, options, t) ==
    LET all == tasks
        active == IF ~options.includeCompleted
                      THEN SelectSeq(all, LAMBDA task : ~task.completed)
                      ELSE all
        staged == IF options.escalationStage # ""
                      THEN SelectSeq(active,
                               LAMBDA task : task.escalationStage = options.escalationStage)
                      ELSE active
        updated == [i \in 1..Len(staged) |-> updateTaskMetrics(staged[i], t)]
        sorted == sortByPriority(updated)
    IN  IF options.limit # 0 THEN Slice0(sorted, options.limit) ELSE sorted

getTopPriorityTasks(tasks, count, t) ==
    getCriticalTasks(tasks,
        [includeCompleted |-> FALSE, escalationStage |-> "", limit |-> count], t)

\* the assignments of snoozeTask up to the evaluation of reason.trim()
snoozeTracking(task, until) ==
    [task EXCEPT !.snoozedUntil = until, !.snoozeCount = task.snoozeCount + 1]

\* the date checks made before the completed check
snoozeTaskDateFirst(tasks, taskId, until, reason, t) ==
    LET i == IndexOfId(tasks, taskId)
        task == tasks[i]
    IN  IF i = 0 THEN [tasks |-> tasks, ret |-> Thrown("snoozeTask", taskId, "Task not found")]
        ELSE IF until = NULL
            THEN [tasks |-> tasks, ret |-> Thrown("snoozeTask", taskId, "Invalid snooze date")]
        ELSE IF until[1] <= t
            THEN [tasks |-> tasks,
                  ret |-> Thrown("snoozeTask", taskId, "Snooze time must be in the future")]
        ELSE IF task.completed
            THEN [tasks |-> tasks,
                  ret |-> Thrown("snoozeTask", taskId, "Cannot snooze a completed task")]
        ELSE IF reason.type \notin {"string", "undefined"}
            THEN [tasks |-> [tasks EXCEPT ![i] = snoozeTracking(task, until)],
                  ret |-> Thrown("snoozeTask", taskId, "reason.trim is not a function")]
        ELSE [tasks |-> [tasks EXCEPT ![i] = updateTaskMetrics(
                            [snoozeTracking(task, until) EXCEPT
                                !.snoozeHistory = Append(task.snoozeHistory,
                                    [snoozedat |-> t, snoozedUntil |-> until,
                                     reason |-> trim(IF reason.type = "undefined"
                                                     THEN <<>> ELSE reason.chars)]),
                                !.updatedAt = t], t)],
              ret |-> Returned("snoozeTask", taskId)]

\* the future check made strict the wrong way: until = now is accepted
snoozeTaskNotPast(tasks, taskId, until, reason, t) ==
    LET i == IndexOfId(tasks, taskId)
        task == tasks[i]
    IN  IF i = 0 THEN [tasks |-> tasks, ret |-> Thrown("snoozeTask", taskId, "Task not found")]
        ELSE IF task.completed
            THEN [tasks |-> tasks,
                  ret |-> Thrown("snoozeTask", taskId, "Cannot snooze a completed task")]
        ELSE IF until = NULL
            THEN [tasks |-> tasks, ret |-> Thrown("snoozeTask", taskId, "Invalid snooze date")]
        ELSE IF until[1] < t
            THEN [tasks |-> tasks,
                  ret |-> Thrown("snoozeTask", taskId, "Snooze time must be in the future")]
        ELSE IF reason.type \notin {"string", "undefined"}
            THEN [tasks |-> [tasks EXCEPT ![i] = snoozeTracking(task, until)],
                  ret |-> Thrown("snoozeTask", taskId, "reason.trim is not a function")]
        ELSE [tasks |-> [tasks EXCEPT ![i] = updateTaskMetrics(
                            [snoozeTracking(task, until) EXCEPT
                                !.snoozeHistory = Append(task.snoozeHistory,
                                    [snoozedat |-> t, snoozedUntil |-> until,
                                     reason |-> trim(IF reason.type = "undefined"
                                                     THEN <<>> ELSE reason.chars)]),
                                !.updatedAt = t], t)],
              ret |-> Returned("snoozeTask", taskId)]

snoozeTask(tasks, taskId, until, reason, t) ==
    LET i == IndexOfId(tasks, taskId)
        task == tasks[i]
        text == IF reason.type = "undefined" THEN <<>> ELSE reason.chars
    IN  IF i = 0 THEN Outcome(tasks, Thrown("snoozeTask", taskId, "Task not found"))
        ELSE IF task.completed
            THEN Outcome(tasks, Thrown("snoozeTask", taskId, "Cannot snooze a completed task"))
        ELSE IF until = NULL
            THEN Outcome(tasks, Thrown("snoozeTask", taskId, "Invalid snooze date"))
        ELSE IF until[1] <= t
            THEN Outcome(tasks, Thrown("snoozeTask", taskId, "Snooze time must be in the future"))
        ELSE IF reason.type \notin {"string", "undefined"}
            THEN Outcome([tasks EXCEPT ![i] = snoozeTracking(task, until)],
                         Thrown("snoozeTask", taskId, "reason.trim is not a function"))
        ELSE LET tracked == snoozeTracking(task, until)
                 logged == [tracked EXCEPT
                               !.snoozeHistory = Append(tracked.snoozeHistory,
                                   [snoozedat |-> t, snoozedUntil |-> until,
                                    reason |-> trim(text)]),
                               !.updatedAt = t]
                 measured == updateTaskMetrics(logged, t)
             IN  Outcome([tasks EXCEPT ![i] = measured],
                         Returned("snoozeTask", taskId))

\* completion without the already-completed check
completeTaskUnchecked(tasks, taskId, t) ==
    LET i == IndexOfId(tasks, taskId)
    IN  IF i = 0 THEN [tasks |-> tasks, ret |-> Thrown("completeTask", taskId, "Task not found")]
        ELSE [tasks |-> [tasks EXCEPT ![i].completed = TRUE,
                                      ![i].completedAt = Some(t),
                                      ![i].updatedAt = t],
              ret |-> Returned("completeTask", taskId)]

\* completion that also wakes the task
completeTaskClearingSnooze(tasks, taskId, t) ==
    LET i == IndexOfId(tasks, taskId)
        task == tasks[i]
    IN  IF i = 0 THEN [tasks |-> tasks, ret |-> Thrown("completeTask", taskId, "Task not found")]
        ELSE IF task.completed
            THEN [tasks |-> tasks,
                  ret |-> Thrown("completeTask", taskId, "Task is already completed")]
        ELSE [tasks |-> [tasks EXCEPT ![i].completed = TRUE,
                                      ![i].completedAt = Some(t),
                                      ![i].updatedAt = t,
                                      ![i].snoozedUntil = NULL],
              ret |-> Returned("completeTask", taskId)]

completeTask(tasks, taskId, t) ==
    LET i == IndexOfId(tasks, taskId)
        task == tasks[i]
    IN  IF i = 0 THEN Outcome(tasks, Thrown("completeTask", taskId, "Task not found"))
        ELSE IF task.completed
            THEN Outcome(tasks, Thrown("completeTask", taskId, "Task is already completed"))
        ELSE LET done == [task EXCEPT !.completed = TRUE,
                                      !.completedAt = Some(t),
                                      !.updatedAt = t]
             IN  Outcome([tasks EXCEPT ![i] = done],
                         Returned("completeTask", taskId))

\* the flag written to every step of the task
updateMicroStepEvery(tasks, taskId, stepId, completed, t) ==
    LET i == IndexOfId(tasks, taskId)
    IN  IF i = 0
            THEN [tasks |-> tasks, ret |-> Thrown("updateMicroStep", taskId, "Task not found")]
        ELSE IF IndexOfId(tasks[i].microSteps, stepId) = 0
            THEN [tasks |-> tasks,
                  ret |-> Thrown("updateMicroStep", taskId, "Micro-step not found")]
        ELSE [tasks |-> [tasks EXCEPT
                            ![i].microSteps =
                                [k \in 1..Len(tasks[i].microSteps) |->
                                    [tasks[i].microSteps[k] EXCEPT !.completed = completed]],
                            ![i].updatedAt = t],
              ret |-> Returned("updateMicroStep", taskId)]

\* the flag written to the task instead of the step
updateMicroStepOnTask(tasks, taskId, stepId, completed, t) ==
    LET i == IndexOfId(tasks, taskId)
    IN  IF i = 0
            THEN [tasks |-> tasks, ret |-> Thrown("updateMicroStep", taskId, "Task not found")]
        ELSE IF IndexOfId(tasks[i].microSteps, stepId) = 0
            THEN [tasks |-> tasks,
                  ret |-> Thrown("updateMicroStep", taskId, "Micro-step not found")]
        ELSE [tasks |-> [tasks EXCEPT ![i].completed = completed, ![i].updatedAt = t],
              ret |-> Returned("updateMicroStep", taskId)]

updateMicroStep(tasks, taskId, stepId, completed, t) ==
    LET i == IndexOfId(tasks, taskId)
        task == tasks[i]
        k == IndexOfId(task.microSteps, stepId)
    IN  IF i = 0 THEN Outcome(tasks, Thrown("updateMicroStep", taskId, "Task not found"))
        ELSE IF k = 0
            THEN Outcome(tasks, Thrown("updateMicroStep", taskId, "Micro-step not found"))
        ELSE LET stepped == [task EXCEPT !.microSteps[k].completed = completed,
                                         !.updatedAt = t]
             IN  Outcome([tasks EXCEPT ![i] = stepped],
                         Returned("updateMicroStep", taskId))

\* the note put in front of the earlier notes
addNoteInFront(tasks, taskId, noteText, t) ==
    LET i == IndexOfId(tasks, taskId)
    IN  IF i = 0 THEN [tasks |-> tasks, ret |-> Thrown("addNote", taskId, "Task not found")]
        ELSE IF noteText.type # "string"
            THEN [tasks |-> tasks,
                  ret |-> Thrown("addNote", taskId, "noteText.trim is not a function")]
        ELSE [tasks |-> [tasks EXCEPT
                            ![i].notes =
                                <<[id |-> uuidNote(taskId, Len(tasks[i].notes) + 1),
                                   text |-> trim(noteText.chars),
                                   createdAt |-> t]>> \o tasks[i].notes,
                            ![i].updatedAt = t],
              ret |-> Returned("addNote", taskId)]

addNote(tasks, taskId, noteText, t) ==
    LET i == IndexOfId(tasks, taskId)
        task == tasks[i]
    IN  IF i = 0 THEN Outcome(tasks, Thrown("addNote", taskId, "Task not found"))
        ELSE IF noteText.type # "string"
            THEN Outcome(tasks, Thrown("addNote", taskId, "noteText.trim is not a function"))
        ELSE LET noted == [task EXCEPT
                              !.notes = Append(task.notes,
                                  [id |-> uuidNote(taskId, Len(task.notes) + 1),
                                   text |-> trim(noteText.chars),
                                   createdAt |-> t]),
                              !.updatedAt = t]
             IN  Outcome([tasks EXCEPT ![i] = noted],
                         Returned("addNote", taskId))

\* the alert filter applied to the stored stage, before the recomputation
getUrgentAlertsStored(tasks, t) ==
    getCriticalTasks(
        SelectSeq(tasks, LAMBDA task : task.escalationStage = "emergency"
                                          \/ task.escalationStage = "critical"),
        [includeCompleted |-> FALSE, escalationStage |-> "", limit |-> 0], t)

getUrgentAlerts(tasks, t) ==
    SelectSeq(getCriticalTasks(tasks,
               [includeCompleted |-> FALSE, escalationStage |-> "", limit |-> 0], t),
           LAMBDA task : task.escalationStage = "emergency"
                            \/ task.escalationStage = "critical")

\* overdue counted over every task, completed or not
getStatsOverdueOfAll(tasks, t) ==
    LET all == tasks
        active == SelectSeq(all, LAMBDA x : ~x.completed)
    IN  [total |-> Len(all),
         active |-> Len(active),
         completed |-> Len(SelectSeq(all, LAMBDA x : x.completed)),
         overdue |-> Len(SelectSeq(all, LAMBDA x : x.deadline # NULL /\ x.deadline[1] < t)),
         snoozed |-> Len(SelectSeq(active,
                          LAMBDA x : x.snoozedUntil # NULL /\ x.snoozedUntil[1] > t)),
         emergency |-> Len(SelectSeq(active, LAMBDA x : x.escalationStage = "emergency")),
         critical |-> Len(SelectSeq(active, LAMBDA x : x.escalationStage = "critical")),
         urgent |-> Len(SelectSeq(active, LAMBDA x : x.escalationStage = "urgent"))]

getStats(tasks, t) ==
    LET all == tasks
        active == SelectSeq(all, LAMBDA x : ~x.completed)
    IN  [total |-> Len(all),
         active |-> Len(active),
         completed |-> Len(SelectSeq(all, LAMBDA x : x.completed)),
         overdue |-> Len(SelectSeq(active, LAMBDA x : x.deadline # NULL /\ x.deadline[1] < t)),
         snoozed |-> Len(SelectSeq(active,
                          LAMBDA x : x.snoozedUntil # NULL /\ x.snoozedUntil[1] > t)),
         emergency |-> Len(SelectSeq(active, LAMBDA x : x.escalationStage = "emergency")),
         critical |-> Len(SelectSeq(active, LAMBDA x : x.escalationStage = "critical")),
         urgent |-> Len(SelectSeq(active, LAMBDA x : x.escalationStage = "urgent"))]

\* every task cleared, completed or not
clearCompletedAll(tasks) ==
    [tasks |-> <<>>,
     ret |-> [Returned("clearCompleted", 0) EXCEPT !.count = Len(tasks)]]

\* the filter predicate inverted
clearCompletedInverted(tasks) ==
    LET kept == SelectSeq(tasks, LAMBDA x : x.completed)
    IN  [tasks |-> kept,
         ret |-> [Returned("clearCompleted", 0) EXCEPT !.count = Len(tasks) - Len(kept)]]

clearCompleted(tasks) ==
    LET initialCount == Len(tasks)
        kept == SelectSeq(tasks, LAMBDA x : ~x.completed)
    IN  Outcome(kept, [Returned("clearCompleted", 0) EXCEPT !.count = initialCount - Len(kept)])

\* handleDelete of pages/api/never-forget.js: findIndex + splice on criticalTasks
handleDelete(tasks, id) ==
    LET taskIndex == IndexOfId(tasks, id)
    IN  IF taskIndex = 0 THEN Outcome(tasks, Thrown("handleDelete", id, "Task not found"))
        ELSE Outcome(SubSeq(tasks, 1, taskIndex - 1)
                         \o SubSeq(tasks, taskIndex + 1, Len(tasks)),
                     Returned("handleDelete", id))

-----------------------------------------------------------------------------
(* Map manager (the "performance optimized" lib/never-forget.js).  The Map  *)
(* is the sequence of its values in insertion order.                        *)

addCriticalTaskMap(tasks, taskData, id, t) == addCriticalTask(tasks, taskData, id, t)

\* the in-place update of the query also stamping updatedAt
getCriticalTasksMapStoreStamping(tasks, options, t) ==
    [i \in 1..Len(tasks) |->
        IF ~options.includeCompleted /\ tasks[i].completed
            THEN tasks[i]
            ELSE [updateTaskMetrics(tasks[i], t) EXCEPT !.updatedAt = t]]

\* the loop of getCriticalTasks: the stored tasks after the in-place updates
getCriticalTasksMapStore(tasks, options, t) ==
    [i \in 1..Len(tasks) |->
        IF ~options.includeCompleted /\ tasks[i].completed
            THEN tasks[i]
            ELSE updateTaskMetrics(tasks[i], t)]

getCriticalTasksMap(tasks, options, t) ==
    LET visited == getCriticalTasksMapStore(tasks, options, t)
        results == SelectSeq(visited,
                       LAMBDA task :
                           /\ ~(~options.includeCompleted /\ task.completed)
                           /\ ~(options.escalationStage # ""
                                /\ task.escalationStage # options.escalationStage))
        sorted == sortByPriority(results)
    IN  IF options.limit # 0 /\ options.limit > 0
            THEN Slice0(sorted, options.limit)
            ELSE sorted

getTopPriorityTasksMap(tasks, count, t) ==
    getCriticalTasksMap(tasks,
        [includeCompleted |-> FALSE, escalationStage |-> "", limit |-> count], t)

snoozeTaskMap(tasks, taskId, until, reason, t) ==
    LET i == IndexOfId(tasks, taskId)
        task == tasks[i]
        text == IF reason.type = "undefined" THEN <<>> ELSE reason.chars
    IN  IF i = 0 THEN Outcome(tasks, Thrown("snoozeTask", taskId, "Task not found"))
        ELSE IF task.completed
            THEN Outcome(tasks, Thrown("snoozeTask", taskId, "Cannot snooze a completed task"))
        ELSE IF until = NULL
            THEN Outcome(tasks, Thrown("snoozeTask", taskId, "Invalid snooze date"))
        ELSE IF until[1] <= t
            THEN Outcome(tasks, Thrown("snoozeTask", taskId, "Snooze time must be in the future"))
        ELSE IF reason.type \notin {"string", "undefined"}
            THEN Outcome([tasks EXCEPT ![i] = snoozeTracking(task, until)],
                         Thrown("snoozeTask", taskId, "reason.trim is not a function"))
        ELSE LET tracked == snoozeTracking(task, until)
                 logged == [tracked EXCEPT
                               !.snoozeHistory = Append(tracked.snoozeHistory,
                                   [snoozedAt |-> t, snoozedUntil |-> until,
                                    reason |-> trim(text)]),
                               !.updatedAt = t]
                 measured == updateTaskMetrics(logged, t)
             IN  Outcome([tasks EXCEPT ![i] = measured],
                         Returned("snoozeTask", taskId))

completeTaskMap(tasks, taskId, t) == completeTask(tasks, taskId, t)

updateMicroStepMap(tasks, taskId, stepId, completed, t) ==
    updateMicroStep(tasks, taskId, stepId, completed, t)

addNoteMap(tasks, taskId, noteText, t) == addNote(tasks, taskId, noteText, t)

\* the loop of getUrgentAlerts: the stored tasks after the in-place updates
getUrgentAlertsMapStore(tasks, t) ==
    [i \in 1..Len(tasks) |->
        IF tasks[i].completed THEN tasks[i] ELSE updateTaskMetrics(tasks[i], t)]

getUrgentAlertsMap(tasks, t) ==
    sortByPriority(
        SelectSeq(getUrgentAlertsMapStore(tasks, t),
               LAMBDA task : /\ ~task.completed
                             /\ (task.escalationStage = "emergency"
                                    \/ task.escalationStage = "critical")))

\* the loop of getStats: the stored tasks after the in-place updates
getStatsMapStore(tasks, t) ==
    [i \in 1..Len(tasks) |->
        IF tasks[i].completed THEN tasks[i] ELSE updateTaskMetrics(tasks[i], t)]

getStatsMap(tasks, t) ==
    LET visited == getStatsMapStore(tasks, t)
        active == SelectSeq(visited, LAMBDA x : ~x.completed)
    IN  [total |-> Len(visited),
         active |-> Len(active),
         completed |-> Len(SelectSeq(visited, LAMBDA x : x.completed)),
         overdue |-> Len(SelectSeq(active, LAMBDA x : x.deadline # NULL /\ x.deadline[1] < t)),
         snoozed |-> Len(SelectSeq(active,
                          LAMBDA x : x.snoozedUntil # NULL /\ x.snoozedUntil[1] > t)),
         emergency |-> Len(SelectSeq(active, LAMBDA x : x.escalationStage = "emergency")),
         critical |-> Len(SelectSeq(active, LAMBDA x : x.escalationStage = "critical")),
         urgent |-> Len(SelectSeq(active, LAMBDA x : x.escalationStage = "urgent"))]

clearCompletedMap(tasks) ==
    LET clearedCount == Len(SelectSeq(tasks, LAMBDA x : x.completed))
        kept == SelectSeq(tasks, LAMBDA x : ~x.completed)
    IN  Outcome(kept, [Returned("clearCompleted", 0) EXCEPT !.count = clearedCount])

\* handleDelete against the Map manager: neverForget.criticalTasks is undefined,
\* findIndex throws, the handler answers 500 and the Map is untouched
handleDeleteMap(tasks, id) ==
    Outcome(tasks, Thrown("handleDelete", id, "Failed to delete task"))

-----------------------------------------------------------------------------
(* The LRU cache of the Zep client (lib/zep-client-cache.js).  The key map   *)
(* is a function from keys to nodes; prev, next, head and tail hold the key  *)
(* of the node they point to, or NULL.  A key is a sequence of characters.   *)

\* Map.prototype.set and Map.prototype.delete on the key map
mapSet(m, key, node) == [k \in (DOMAIN m) \cup {key} |-> IF k = key THEN node ELSE m[k]]

mapDelete(m, key) == [k \in (DOMAIN m) \ {key} |-> m[k]]

CacheNode(key, value, t) ==
    [key |-> key, value |-> value, timestamp |-> t, prev |-> NULL, next |-> NULL]

\* new ZepClientLRUCache(options); an option that is 0 or missing is falsy
ZepClientLRUCache(options) ==
    [maxSize |-> IF options.maxSize # 0 THEN options.maxSize ELSE 100,
     ttl |-> IF options.ttl # 0 THEN options.ttl ELSE 5 * 60 * 1000,
     cache |-> <<>>,
     head |-> NULL,
     tail |-> NULL,
     size |-> 0,
     stats |-> [hits |-> 0, misses |-> 0, evictions |-> 0, expirations |-> 0]]

isExpired(c, node, t) == t - node.timestamp > c.ttl

\* the unlinking of a node that never moves the tail
removeNodeKeepingTail(c, key) ==
    LET node == c.cache[key]
        before == IF node.prev # NULL
                      THEN [c EXCEPT !.cache[node.prev[1]].next = node.next]
                      ELSE [c EXCEPT !.head = node.next]
    IN  IF node.next # NULL
            THEN [before EXCEPT !.cache[node.next[1]].prev = node.prev]
            ELSE before

removeNode(c, key) ==
    LET node == c.cache[key]
        before == IF node.prev # NULL
                      THEN [c EXCEPT !.cache[node.prev[1]].next = node.next]
                      ELSE [c EXCEPT !.head = node.next]
    IN  IF node.next # NULL
            THEN [before EXCEPT !.cache[node.next[1]].prev = node.prev]
            ELSE [before EXCEPT !.tail = node.prev]

addToFront(c, key) ==
    LET linked == [c EXCEPT !.cache[key].next = c.head, !.cache[key].prev = NULL]
        pushed == IF c.head # NULL
                      THEN [linked EXCEPT !.cache[c.head[1]].prev = Some(key)]
                      ELSE linked
        headed == [pushed EXCEPT !.head = Some(key)]
    IN  IF c.tail = NULL THEN [headed EXCEPT !.tail = Some(key)] ELSE headed

moveToFront(c, key) ==
    IF c.head = Some(key) THEN c ELSE addToFront(removeNode(c, key), key)

evictLRU(c) ==
    IF c.tail = NULL THEN c
    ELSE LET lruKey == c.cache[c.tail[1]].key
             unlinked == removeNode(c, c.tail[1])
         IN  [unlinked EXCEPT !.cache = mapDelete(unlinked.cache, lruKey),
                              !.size = unlinked.size - 1,
                              !.stats.evictions = unlinked.stats.evictions + 1]

\* an operation yields the cache after it and the value it returns
delete(c, key) ==
    IF key \notin DOMAIN c.cache THEN [zepCache |-> c, value |-> FALSE]
    ELSE LET unlinked == removeNode(c, key)
         IN  [zepCache |-> [unlinked EXCEPT !.cache = mapDelete(unlinked.cache, key),
                                            !.size = unlinked.size - 1],
              value |-> TRUE]

\* a hit that leaves the entry where it is in the list
getWithoutPromotion(c, key, t) ==
    IF key \notin DOMAIN c.cache
        THEN [zepCache |-> [c EXCEPT !.stats.misses = c.stats.misses + 1],
              value |-> JsNull]
    ELSE IF isExpired(c, c.cache[key], t)
        THEN [zepCache |-> [delete(c, key).zepCache EXCEPT
                               !.stats.expirations = c.stats.expirations + 1,
                               !.stats.misses = c.stats.misses + 1],
              value |-> JsNull]
    ELSE [zepCache |-> [c EXCEPT !.stats.hits = c.stats.hits + 1],
          value |-> c.cache[key].value]

\* a hit that renews the timestamp of the entry
getRefreshing(c, key, t) ==
    IF key \notin DOMAIN c.cache
        THEN [zepCache |-> [c EXCEPT !.stats.misses = c.stats.misses + 1],
              value |-> JsNull]
    ELSE IF isExpired(c, c.cache[key], t)
        THEN [zepCache |-> [delete(c, key).zepCache EXCEPT
                               !.stats.expirations = c.stats.expirations + 1,
                               !.stats.misses = c.stats.misses + 1],
              value |-> JsNull]
    ELSE [zepCache |-> [moveToFront([c EXCEPT !.cache[key].timestamp = t], key)
                            EXCEPT !.stats.hits = c.stats.hits + 1],
          value |-> c.cache[key].value]

get(c, key, t) ==
    IF key \notin DOMAIN c.cache
        THEN [zepCache |-> [c EXCEPT !.stats.misses = c.stats.misses + 1],
              value |-> JsNull]
    ELSE IF isExpired(c, c.cache[key], t)
        THEN [zepCache |-> [delete(c, key).zepCache EXCEPT
                               !.stats.expirations = c.stats.expirations + 1,
                               !.stats.misses = c.stats.misses + 1],
              value |-> JsNull]
    ELSE [zepCache |-> [moveToFront(c, key) EXCEPT !.stats.hits = c.stats.hits + 1],
          value |-> c.cache[key].value]

\* a new entry stored without the eviction of the least recently used one
setWithoutEviction(c, key, value, t) ==
    IF key \in DOMAIN c.cache
        THEN moveToFront([c EXCEPT !.cache[key].value = value,
                                   !.cache[key].timestamp = t], key)
    ELSE LET created == [c EXCEPT !.cache = mapSet(c.cache, key, CacheNode(key, value, t))]
             linked == addToFront(created, key)
         IN  [linked EXCEPT !.size = linked.size + 1]

set(c, key, value, t) ==
    IF key \in DOMAIN c.cache
        THEN moveToFront([c EXCEPT !.cache[key].value = value,
                                   !.cache[key].timestamp = t], key)
    ELSE LET created == [c EXCEPT !.cache = mapSet(c.cache, key, CacheNode(key, value, t))]
             linked == addToFront(created, key)
             added == [linked EXCEPT !.size = linked.size + 1]
         IN  IF added.size > added.maxSize THEN evictLRU(added) ELSE added

clear(c) == [c EXCEPT !.cache = <<>>, !.head = NULL, !.tail = NULL, !.size = 0]

\* JSON.stringify of one element of an argument array: text is quoted, null
\* and undefined both become null
stringifyElement(v) ==
    CASE v.type = "string" -> <<"\"">> \o v.chars \o <<"\"">>
      [] v.type \in {"null", "undefined"} -> <<"n", "u", "l", "l">>

RECURSIVE joinElements(_)
joinElements(args) ==
    IF args = <<>> THEN <<>>
    ELSE IF Len(args) = 1 THEN stringifyElement(args[1])
    ELSE stringifyElement(args[1]) \o <<",">> \o joinElements(Tail(args))

JSONstringify(args) == <<"[">> \o joinElements(args) \o <<"]">>

createCacheKey(functionName, args) == functionName \o <<":">> \o JSONstringify(args)

\* the function returned by cacheZepMethod, up to its await: the lookup and,
\* when the lookup yields null, the call of the original method
cacheZepMethodCall(c, methodName, args, t) ==
    LET cacheKey == createCacheKey(methodName, args)
        cachedResult == get(c, cacheKey, t)
    IN  [zepCache |-> cachedResult.zepCache,
         value |-> cachedResult.value,
         invoked |-> ~(cachedResult.value # JsNull)]

\* the same function after its await: the result is stored and returned
cacheZepMethodReturn(c, methodName, args, result, t) ==
    [zepCache |-> set(c, createCacheKey(methodName, args), result, t),
     value |-> result]

-----------------------------------------------------------------------------
(* The single-pass processor (lib/single-pass-filter.js).  Items are         *)
(* integers; a function handed to the processor is given by its name.        *)

\* the functions a caller hands over: predicates, mappers, comparators, reducers
predicateFn(fn, item) ==
    CASE fn = "isOdd" -> item % 2 = 1
      [] fn = "greaterThanOne" -> item > 1

mapperFn(fn, item) ==
    CASE fn = "increment" -> item + 1
      [] fn = "double" -> 2 * item

compareFn(fn, a, b) ==
    CASE fn = "ascending" -> a - b
      [] fn = "descending" -> b - a

reducerFn(fn, acc, item) ==
    CASE fn = "countOne" -> acc + 1
      [] fn = "sum" -> acc + item

\* Array.prototype.sort with a comparator: stable
RECURSIVE insertSorted(_, _, _)
insertSorted(sorted, item, fn) ==
    IF sorted = <<>> THEN <<item>>
    ELSE IF compareFn(fn, Head(sorted), item) <= 0
        THEN <<Head(sorted)>> \o insertSorted(Tail(sorted), item, fn)
    ELSE <<item>> \o sorted

RECURSIVE arraySort(_, _)
arraySort(items, fn) ==
    IF items = <<>> THEN <<>>
    ELSE insertSorted(arraySort(SubSeq(items, 1, Len(items) - 1), fn), items[Len(items)], fn)

SinglePassProcessor(data) == [data |-> data, operations |-> <<>>]

singlePass(data) == SinglePassProcessor(data)

\* the chainable methods; count is the fn of a limit operation
filter(p, predicate) ==
    [p EXCEPT !.operations = Append(p.operations,
                                    [type |-> "filter", fn |-> predicate, count |-> 0])]

map(p, mapper) ==
    [p EXCEPT !.operations = Append(p.operations,
                                    [type |-> "map", fn |-> mapper, count |-> 0])]

sort(p, compare) ==
    [p EXCEPT !.operations = Append(p.operations,
                                    [type |-> "sort", fn |-> compare, count |-> 0])]

limit(p, count) ==
    [p EXCEPT !.operations = Append(p.operations,
                                    [type |-> "limit", fn |-> "count", count |-> count])]

\* operations.find(op => op.type === type): its index, 0 when there is none
RECURSIVE findOperation(_, _, _)
findOperation(operations, type, i) ==
    IF i > Len(operations) THEN 0
    ELSE IF operations[i].type = type THEN i
    ELSE findOperation(operations, type, i + 1)

\* the inner loop of execute and reduce: filters and maps applied in order
RECURSIVE applyOperations(_, _, _)
applyOperations(operations, i, currentItem) ==
    IF i > Len(operations) THEN [shouldInclude |-> TRUE, currentItem |-> currentItem]
    ELSE IF operations[i].type = "filter"
        THEN (IF ~predicateFn(operations[i].fn, currentItem)
                  THEN [shouldInclude |-> FALSE, currentItem |-> currentItem]
                  ELSE applyOperations(operations, i + 1, currentItem))
    ELSE IF operations[i].type = "map"
        THEN applyOperations(operations, i + 1, mapperFn(operations[i].fn, currentItem))
    ELSE applyOperations(operations, i + 1, currentItem)

\* the pass of execute over the data, from item i on
RECURSIVE executePass(_, _, _)
executePass(p, i, results) ==
    LET limitAt == findOperation(p.operations, "limit", 1)
        hasLimit == limitAt # 0
    IN  IF i > Len(p.data) THEN results
        ELSE IF hasLimit /\ Len(results) >= p.operations[limitAt].count THEN results
        ELSE LET applied == applyOperations(p.operations, 1, p.data[i])
             IN  executePass(p, i + 1,
                     IF applied.shouldInclude THEN Append(results, applied.currentItem)
                     ELSE results)

execute(p) ==
    LET passed == executePass(p, 1, <<>>)
        sortAt == findOperation(p.operations, "sort", 1)
        sorted == IF sortAt # 0 THEN arraySort(passed, p.operations[sortAt].fn) ELSE passed
        limitAt == findOperation(p.operations, "limit", 1)
    IN  IF limitAt # 0 /\ Len(sorted) > p.operations[limitAt].count
            THEN SubSeq(sorted, 1, p.operations[limitAt].count)
            ELSE sorted

RECURSIVE reducePass(_, _, _, _)
reducePass(p, i, reducer, accumulator) ==
    IF i > Len(p.data) THEN accumulator
    ELSE LET applied == applyOperations(p.operations, 1, p.data[i])
         IN  reducePass(p, i + 1, reducer,
                 IF applied.shouldInclude
                     THEN reducerFn(reducer, accumulator, applied.currentItem)
                     ELSE accumulator)

reduce(p, reducer, initialValue) == reducePass(p, 1, reducer, initialValue)

\* count()
countItems(p) == reduce(p, "countOne", 0)

\* the inner loop of some and every: each filter applied to the item itself
passesFilters(operations, item) ==
    \A i \in 1..Len(operations) :
        operations[i].type = "filter" => predicateFn(operations[i].fn, item)

some(p) == \E i \in 1..Len(p.data) : passesFilters(p.operations, p.data[i])

every(p) == \A i \in 1..Len(p.data) : passesFilters(p.operations, p.data[i])

\* the loop of benchmarkFiltering that chains the operations of a list
RECURSIVE chainOperations(_, _)
chainOperations(p, operations) ==
    IF operations = <<>> THEN p
    ELSE LET op == Head(operations)
             chained == CASE op.type = "filter" -> filter(p, op.fn)
                          [] op.type = "map" -> map(p, op.fn)
                          [] op.type = "sort" -> sort(p, op.fn)
                          [] op.type = "limit" -> limit(p, op.count)
         IN  chainOperations(chained, Tail(operations))

-----------------------------------------------------------------------------------------------------------------------------------------------------
(* Inputs of the store *)

Titles == {JsString(<<" ", "T">>), JsString(<<" ">>), JsNumber, JsUndefined}

Importances == {""}

\* hours from the call to the deadline; a deadline in the past is accepted
DeadlineOffsets == {6, 0 - 73}

Deadlines(t) == {NULL} \cup {Some(t + o) : o \in DeadlineOffsets}

TaskData(t) ==
    [title : Titles, importance : Importances, deadline : Deadlines(t)]

Untils(t) == {NULL, Some(t), Some(t + 1)}

Reasons == {JsString(<<" ", "r">>), JsNumber}

NoteTexts == {JsString(<<"n", " ">>), JsNumber}

TaskIds == 1..MaxTasks

StepIds(taskId) == {uuidStep(taskId, 1), uuidStep(taskId, 4)}

Limits == {0, 1}

Options ==
    [includeCompleted : BOOLEAN, escalationStage : {""} \cup ESCALATION_STAGES,
     limit : Limits]

\* the stored task with this identifier, when Present
Stored(tasks, taskId) == tasks[IndexOfId(tasks, taskId)]

Present(tasks, taskId) == IndexOfId(tasks, taskId) # 0

-----------------------------------------------------------------------------
(* The store: one action per operation, applied to both managers *)

\* the cache under check: new ZepClientLRUCache({maxSize, ttl})
CacheOptions == [maxSize |-> MaxCacheSize, ttl |-> CacheTtl]

CacheKeys == {<<"a">>, <<"b">>, <<"c">>}

CacheValues == {JsString(<<"v">>), JsString(<<"w">>)}

\* the wrapped method, its argument lists and what the original resolves to
MethodName == <<"s", "e", "a", "r", "c", "h">>

WrappedArgs == {<<JsString(<<"x">>)>>, <<JsString(<<"y">>)>>, <<JsNull>>, <<JsUndefined>>}

OriginalResults == {JsString(<<"r">>), JsNull}

NoCalls ==
    [pending |-> <<>>,
     last |-> [args |-> <<>>, value |-> JsUndefined, cached |-> FALSE]]

NoPass ==
    [data |-> <<>>, operations |-> <<>>, results |-> NULL, count |-> NULL,
     some |-> NULL, every |-> NULL]

InitCache ==
    /\ zepCache = ZepClientLRUCache(CacheOptions)
    /\ used = <<>>
    /\ lastSet = <<>>
    /\ calls = NoCalls

InitLib == InitCache /\ pass = NoPass

NoProbe == [importance |-> "high", deadline |-> NULL, createdAt |-> 0,
            snoozedUntil |-> NULL, snoozeCount |-> 0]

NoCalc == [evaluated |-> FALSE, priorityScore |-> 0, escalationStage |-> "normal",
           visualIndicators |-> NULL]

Init ==
    /\ now = 0
    /\ criticalTasks = <<>>
    /\ criticalTasksMap = <<>>
    /\ nextId = 0
    /\ ret = NoCall
    /\ retMap = NoCall
    /\ removed = {}
    /\ removedMap = {}
    /\ probe = NoProbe
    /\ calc = NoCalc
    /\ InitLib

Commit(a, m) ==
    /\ criticalTasks' = a.tasks
    /\ ret' = a.ret
    /\ criticalTasksMap' = m.tasks
    /\ retMap' = m.ret

\* time passes
Tick ==
    /\ now' = now + 1
    /\ UNCHANGED <<storeVars, calcVars, libVars>>

AddCriticalTask(taskData) ==
    LET a == addCriticalTask(criticalTasks, taskData, nextId + 1, now)
        m == addCriticalTaskMap(criticalTasksMap, taskData, nextId + 1, now)
    IN  /\ Commit(a, m)
        /\ nextId' = IF a.ret.ok THEN nextId + 1 ELSE nextId
        /\ UNCHANGED <<now, removed, removedMap, calcVars, libVars>>

SnoozeTask(taskId, until, reason) ==
    /\ Commit(snoozeTask(criticalTasks, taskId, until, reason, now),
              snoozeTaskMap(criticalTasksMap, taskId, until, reason, now))
    /\ UNCHANGED <<now, nextId, removed, removedMap, calcVars, libVars>>

CompleteTask(taskId) ==
    /\ Commit(completeTask(criticalTasks, taskId, now),
              completeTaskMap(criticalTasksMap, taskId, now))
    /\ UNCHANGED <<now, nextId, removed, removedMap, calcVars, libVars>>

UpdateMicroStep(taskId, stepId, completed) ==
    /\ Commit(updateMicroStep(criticalTasks, taskId, stepId, completed, now),
              updateMicroStepMap(criticalTasksMap, taskId, stepId, completed, now))
    /\ UNCHANGED <<now, nextId, removed, removedMap, calcVars, libVars>>

AddNote(taskId, noteText) ==
    /\ Commit(addNote(criticalTasks, taskId, noteText, now),
              addNoteMap(criticalTasksMap, taskId, noteText, now))
    /\ UNCHANGED <<now, nextId, removed, removedMap, calcVars, libVars>>

GetCriticalTasks(options) ==
    /\ Commit(Outcome(criticalTasks, Returned("getCriticalTasks", 0)),
              Outcome(getCriticalTasksMapStore(criticalTasksMap, options, now),
                      Returned("getCriticalTasks", 0)))
    /\ UNCHANGED <<now, nextId, removed, removedMap, calcVars, libVars>>

GetTopPriorityTasks(count) ==
    LET options == [includeCompleted |-> FALSE, escalationStage |-> "", limit |-> count]
    IN  /\ Commit(Outcome(criticalTasks, Returned("getTopPriorityTasks", 0)),
                  Outcome(getCriticalTasksMapStore(criticalTasksMap, options, now),
                          Returned("getTopPriorityTasks", 0)))
        /\ UNCHANGED <<now, nextId, removed, removedMap, calcVars, libVars>>

GetUrgentAlerts ==
    /\ Commit(Outcome(criticalTasks, Returned("getUrgentAlerts", 0)),
              Outcome(getUrgentAlertsMapStore(criticalTasksMap, now),
                      Returned("getUrgentAlerts", 0)))
    /\ UNCHANGED <<now, nextId, removed, removedMap, calcVars, libVars>>

GetStats ==
    /\ Commit(Outcome(criticalTasks, Returned("getStats", 0)),
              Outcome(getStatsMapStore(criticalTasksMap, now), Returned("getStats", 0)))
    /\ UNCHANGED <<now, nextId, removed, removedMap, calcVars, libVars>>

CompletedIds(tasks) == {tasks[i].id : i \in {j \in 1..Len(tasks) : tasks[j].completed}}

ClearCompleted ==
    /\ Commit(clearCompleted(criticalTasks), clearCompletedMap(criticalTasksMap))
    /\ removed' = removed \cup CompletedIds(criticalTasks)
    /\ removedMap' = removedMap \cup CompletedIds(criticalTasksMap)
    /\ UNCHANGED <<now, nextId, calcVars, libVars>>

HandleDelete(id) ==
    /\ Commit(handleDelete(criticalTasks, id), handleDeleteMap(criticalTasksMap, id))
    /\ UNCHANGED <<now, nextId, removed, removedMap, calcVars, libVars>>

-----------------------------------------------------------------------------
(* The cache: one action per operation.  used and lastSet record, for the    *)
(* entries that are stored after the operation, the order of their last use  *)
(* and the instant of their last set.                                        *)

Touch(keys, key) == <<key>> \o SelectSeq(keys, LAMBDA k : k # key)

\* the entry of this key was set no more than ttl ago
Alive(key) == key \in DOMAIN lastSet /\ now - lastSet[key] <= zepCache.ttl

Remember(c, usedNext, lastSetNext) ==
    /\ used' = SelectSeq(usedNext, LAMBDA k : k \in DOMAIN c.cache)
    /\ lastSet' = [k \in (DOMAIN lastSetNext) \cap (DOMAIN c.cache) |-> lastSetNext[k]]

CacheGet(key) ==
    LET r == get(zepCache, key, now)
    IN  /\ zepCache' = r.zepCache
        /\ Remember(r.zepCache, IF Alive(key) THEN Touch(used, key) ELSE used, lastSet)
        /\ UNCHANGED <<now, storeVars, calcVars, calls, pass>>

CacheSet(key, value) ==
    LET c == set(zepCache, key, value, now)
    IN  /\ zepCache' = c
        /\ Remember(c, Touch(used, key), mapSet(lastSet, key, now))
        /\ UNCHANGED <<now, storeVars, calcVars, calls, pass>>

CacheDelete(key) ==
    LET r == delete(zepCache, key)
    IN  /\ zepCache' = r.zepCache
        /\ Remember(r.zepCache, used, lastSet)
        /\ UNCHANGED <<now, storeVars, calcVars, calls, pass>>

CacheClear ==
    /\ zepCache' = clear(zepCache)
    /\ Remember(clear(zepCache), used, lastSet)
    /\ UNCHANGED <<now, storeVars, calcVars, calls, pass>>

\* a call of the wrapped method: it returns the cached result, or leaves a
\* call of the original method in flight
CallWrapped(args) ==
    LET r == cacheZepMethodCall(zepCache, MethodName, args, now)
        cacheKey == createCacheKey(MethodName, args)
    IN  /\ zepCache' = r.zepCache
        /\ calls' = IF r.invoked
                        THEN [calls EXCEPT !.pending = Append(calls.pending, args)]
                        ELSE [calls EXCEPT !.last = [args |-> args, value |-> r.value,
                                                     cached |-> TRUE]]
        /\ Remember(r.zepCache,
                    IF Alive(cacheKey) THEN Touch(used, cacheKey) ELSE used, lastSet)
        /\ UNCHANGED <<now, storeVars, calcVars, pass>>

\* the original method resolves the i-th call in flight with this result
OriginalReturns(i, result) ==
    LET args == calls.pending[i]
        cacheKey == createCacheKey(MethodName, args)
        r == cacheZepMethodReturn(zepCache, MethodName, args, result, now)
    IN  /\ zepCache' = r.zepCache
        /\ calls' = [pending |-> SubSeq(calls.pending, 1, i - 1)
                                     \o SubSeq(calls.pending, i + 1, Len(calls.pending)),
                     last |-> [args |-> args, value |-> r.value, cached |-> FALSE]]
        /\ Remember(r.zepCache, Touch(used, cacheKey), mapSet(lastSet, cacheKey, now))
        /\ UNCHANGED <<now, storeVars, calcVars, pass>>

-----------------------------------------------------------------------------
(* Bounded environments.  The guards keep the explored part finite: a call *)
(* that would take a counter past its bound is not made.                   *)

\* no stored task has reached the bound on snoozes / notes
SnoozesBelow(taskId, bound) ==
    /\ Present(criticalTasks, taskId) => Stored(criticalTasks, taskId).snoozeCount < bound
    /\ Present(criticalTasksMap, taskId)
          => Stored(criticalTasksMap, taskId).snoozeCount < bound

NotesBelow(taskId, bound) ==
    /\ Present(criticalTasks, taskId) => Len(Stored(criticalTasks, taskId).notes) < bound
    /\ Present(criticalTasksMap, taskId)
          => Len(Stored(criticalTasksMap, taskId).notes) < bound

\* Lifecycle and queries of two tasks while time passes
Next ==
    \/ now < MaxTime /\ Tick
    \/ \E taskData \in TaskData(now) : nextId < MaxTasks /\ AddCriticalTask(taskData)
    \/ \E taskId \in TaskIds, until \in Untils(now), reason \in Reasons :
           SnoozesBelow(taskId, MaxSnoozes) /\ SnoozeTask(taskId, until, reason)
    \/ \E taskId \in TaskIds : CompleteTask(taskId)
    \/ \E options \in Options : GetCriticalTasks(options)
    \/ \E count \in Limits \ {0} : GetTopPriorityTasks(count)
    \/ GetUrgentAlerts
    \/ GetStats
    \/ ClearCompleted

Spec == Init /\ [][Next]_vars

\* Every command of the store on two tasks, at one instant
NextAll ==
    \/ \E taskData \in TaskData(now) : nextId < MaxTasks /\ AddCriticalTask(taskData)
    \/ \E taskId \in TaskIds, until \in Untils(now), reason \in Reasons :
           SnoozesBelow(taskId, MaxSnoozes) /\ SnoozeTask(taskId, until, reason)
    \/ \E taskId \in TaskIds : CompleteTask(taskId)
    \/ \E taskId \in TaskIds : \E stepId \in StepIds(taskId), completed \in BOOLEAN :
           UpdateMicroStep(taskId, stepId, completed)
    \/ \E taskId \in TaskIds, noteText \in NoteTexts :
           NotesBelow(taskId, MaxNotes) /\ AddNote(taskId, noteText)
    \/ ClearCompleted
    \/ \E id \in TaskIds : HandleDelete(id)

SpecAll == Init /\ [][NextAll]_vars

\* One task of any importance, snoozed again and again while time passes
SnoozeImportances == {"", "low", "critical"}

SnoozeTaskData(t) ==
    [title : {JsString(<<"T">>)}, importance : SnoozeImportances, deadline : Deadlines(t)]

NextSnooze ==
    \/ now < MaxTime /\ Tick
    \/ \E taskData \in SnoozeTaskData(now) : nextId < 1 /\ AddCriticalTask(taskData)
    \/ \E until \in Untils(now), reason \in Reasons :
           SnoozesBelow(1, MaxRepeatSnoozes) /\ SnoozeTask(1, until, reason)

SpecSnooze == Init /\ [][NextSnooze]_vars

\* The whole life of one task: every command, every query, the delete
\* handler and the clock.  Its deadline, when it has one, lies 72 hours back,
\* so that the passing hour takes it from critical to emergency.
OneDeadlines(t) == {NULL, Some(t - 72)}

OneTaskData(t) ==
    [title : {JsString(<<"T">>)}, importance : Importances, deadline : OneDeadlines(t)]

NextOne ==
    \/ now < MaxTime /\ Tick
    \/ \E taskData \in OneTaskData(now) : nextId < 1 /\ AddCriticalTask(taskData)
    \/ \E until \in Untils(now), reason \in Reasons :
           SnoozesBelow(1, MaxRepeatSnoozes) /\ SnoozeTask(1, until, reason)
    \/ CompleteTask(1)
    \/ \E stepId \in StepIds(1), completed \in BOOLEAN : UpdateMicroStep(1, stepId, completed)
    \/ \E noteText \in NoteTexts : NotesBelow(1, MaxRepeatNotes) /\ AddNote(1, noteText)
    \/ \E options \in Options : GetCriticalTasks(options)
    \/ GetTopPriorityTasks(1)
    \/ GetUrgentAlerts
    \/ GetStats
    \/ ClearCompleted
    \/ HandleDelete(1)

SpecOne == Init /\ [][NextOne]_vars

-----------------------------------------------------------------------------
(* The calculator on its own: a task snapshot drawn from bounded sets is    *)
(* evaluated at hour ProbeNow.                                              *)

ProbeImportances == {"critical", "high", "medium", "low", "other"}

ProbeAges == {0, 1, 24}

Probes ==
    [importance : ProbeImportances,
     deadline : {NULL} \cup {Some(d) : d \in 0..MaxProbeDeadline},
     createdAt : {ProbeNow - a : a \in ProbeAges},
     snoozedUntil : {NULL, Some(ProbeNow), Some(ProbeNow + 1)},
     snoozeCount : 0..MaxProbeSnoozeCount]

InitCalc ==
    /\ now = ProbeNow
    /\ criticalTasks = <<>>
    /\ criticalTasksMap = <<>>
    /\ nextId = 0
    /\ ret = NoCall
    /\ retMap = NoCall
    /\ removed = {}
    /\ removedMap = {}
    /\ probe \in Probes
    /\ calc = NoCalc
    /\ InitLib

Evaluate ==
    /\ ~calc.evaluated
    /\ calc' = [evaluated |-> TRUE,
                priorityScore |-> calculatePriorityScore(probe, now),
                escalationStage |-> determineEscalationStage(probe, now),
                visualIndicators |-> generateVisualIndicators(probe, now)]
    /\ UNCHANGED <<now, storeVars, probe, libVars>>

NextCalc == Evaluate

SpecCalc == InitCalc /\ [][NextCalc]_vars

-----------------------------------------------------------------------------
(* The cache on its own: lookups, stores, deletions and clearing of three    *)
(* keys in a cache of MaxCacheSize entries, while its clock advances.  The   *)
(* clock of the cache counts units of which ttl is CacheTtl.                 *)

GetsBelow == zepCache.stats.hits + zepCache.stats.misses < MaxCacheGets

EvictionsBelow == zepCache.stats.evictions < MaxEvictions

NextCache ==
    \/ now < MaxCacheTime /\ Tick
    \/ \E key \in CacheKeys : GetsBelow /\ CacheGet(key)
    \/ \E key \in CacheKeys, value \in CacheValues : EvictionsBelow /\ CacheSet(key, value)
    \/ \E key \in CacheKeys : CacheDelete(key)
    \/ CacheClear

SpecCache == Init /\ [][NextCache]_vars

\* A method wrapped by cacheZepMethod, called with interleaved argument lists
NextWrap ==
    \/ now < MaxCacheTime /\ Tick
    \/ \E args \in WrappedArgs :
           /\ GetsBelow /\ EvictionsBelow /\ Len(calls.pending) < MaxPending
           /\ CallWrapped(args)
    \/ \E i \in 1..Len(calls.pending), result \in OriginalResults :
           OriginalReturns(i, result)

SpecWrap == Init /\ [][NextWrap]_vars

-----------------------------------------------------------------------------
(* The single-pass processor on its own: a chain of operations on bounded    *)
(* data, on which execute, count, some and every are called.                 *)

Items == 1..MaxItem

Data == UNION {[1..n -> Items] : n \in 0..MaxDataLen}

Operations ==
    {[type |-> "filter", fn |-> fn, count |-> 0] : fn \in {"isOdd", "greaterThanOne"}}
        \cup {[type |-> "map", fn |-> fn, count |-> 0] : fn \in {"increment", "double"}}
        \cup {[type |-> "sort", fn |-> fn, count |-> 0] : fn \in {"ascending", "descending"}}
        \cup {[type |-> "limit", fn |-> "count", count |-> n] : n \in 1..MaxDataLen}

Chains == UNION {[1..n -> Operations] : n \in 0..MaxChainLen}

InitPass ==
    /\ now = 0
    /\ criticalTasks = <<>>
    /\ criticalTasksMap = <<>>
    /\ nextId = 0
    /\ ret = NoCall
    /\ retMap = NoCall
    /\ removed = {}
    /\ removedMap = {}
    /\ probe = NoProbe
    /\ calc = NoCalc
    /\ InitCache
    /\ \E data \in Data, operations \in Chains :
           LET p == chainOperations(singlePass(data), operations)
           IN  pass = [NoPass EXCEPT !.data = p.data, !.operations = p.operations]

Processor == [data |-> pass.data, operations |-> pass.operations]

PassExecute ==
    /\ pass.results = NULL
    /\ pass' = [pass EXCEPT !.results = Some(execute(Processor))]
    /\ UNCHANGED <<now, storeVars, calcVars, cacheVars>>

PassCount ==
    /\ pass.count = NULL
    /\ pass' = [pass EXCEPT !.count = Some(countItems(Processor))]
    /\ UNCHANGED <<now, storeVars, calcVars, cacheVars>>

PassSome ==
    /\ pass.some = NULL
    /\ pass' = [pass EXCEPT !.some = Some(some(Processor))]
    /\ UNCHANGED <<now, storeVars, calcVars, cacheVars>>

PassEvery ==
    /\ pass.every = NULL
    /\ pass' = [pass EXCEPT !.every = Some(every(Processor))]
    /\ UNCHANGED <<now, storeVars, calcVars, cacheVars>>

NextPass == PassExecute \/ PassCount \/ PassSome \/ PassEvery

SpecPass == InitPass /\ [][NextPass]_vars

-----------------------------------------------------------------------------
(* Vocabulary of the properties *)

Elements(s) == {s[i] : i \in 1..Len(s)}

Ids(tasks) == {tasks[i].id : i \in 1..Len(tasks)}

SortedByScore(s) ==
    \A i \in 1..(Len(s) - 1) : s[i].priorityScore >= s[i + 1].priorityScore

\* the derived fields are what the calculator yields at hour t
Fresh(task, t) ==
    /\ task.priorityScore = calculatePriorityScore(task, t)
    /\ task.escalationStage = determineEscalationStage(task, t)
    /\ task.visualIndicators = generateVisualIndicators(task, t)

Everything == [includeCompleted |-> TRUE, escalationStage |-> "", limit |-> 0]

ByStage(stage) == [includeCompleted |-> FALSE, escalationStage |-> stage, limit |-> 0]

TaskCommands == {"addCriticalTask", "snoozeTask", "completeTask", "updateMicroStep",
                 "addNote"}

\* a call was made in this step (every operation records its outcome; the
\* clock alone leaves the outcomes as they were)
Called == now' = now

-----------------------------------------------------------------------------
(* C1: getCriticalTasks returns no completed task unless includeCompleted is *)
(* set, and the sequence it returns is ordered by the priority score        *)
(* recomputed at the time of the call, highest first.                       *)

C1_ResultOk(result, options) ==
    /\ SortedByScore(result)
    /\ \A i \in 1..Len(result) :
          /\ result[i].priorityScore = calculatePriorityScore(result[i], now)
          /\ ~options.includeCompleted => ~result[i].completed

C1_NoCompletedAndSorted ==
    \A options \in Options :
        /\ C1_ResultOk(getCriticalTasks(criticalTasks, options, now), options)
        /\ C1_ResultOk(getCriticalTasksMap(criticalTasksMap, options, now), options)

\* a query was made on a collection that holds a completed task and a task
\* with a higher score stored after one with a lower score
C1_Witness ==
    /\ ret.op = "getCriticalTasks"
    /\ retMap.op = "getCriticalTasks"
    /\ Len(criticalTasks) = 2
    /\ criticalTasksMap = criticalTasks
    /\ \E i \in 1..2 : criticalTasks[i].completed
    /\ calculatePriorityScore(criticalTasks[1], now)
          < calculatePriorityScore(criticalTasks[2], now)

-----------------------------------------------------------------------------
(* C2: with an escalationStage s and no limit, getCriticalTasks returns      *)
(* exactly the non-completed tasks whose stage recomputed at call time is s. *)

C2_Expected(tasks, stage) ==
    {tasks[i].id : i \in {j \in 1..Len(tasks) :
        ~tasks[j].completed /\ determineEscalationStage(tasks[j], now) = stage}}

C2_FilterByFreshStage ==
    \A stage \in ESCALATION_STAGES :
        /\ Ids(getCriticalTasks(criticalTasks, ByStage(stage), now))
              = C2_Expected(criticalTasks, stage)
        /\ Ids(getCriticalTasksMap(criticalTasksMap, ByStage(stage), now))
              = C2_Expected(criticalTasksMap, stage)

-----------------------------------------------------------------------------
(* C3: a store command that ends in an error leaves the collection and every *)
(* field of every task as they were.                                        *)

C3_ErrorLeavesStoreUnchanged ==
    [][/\ (Called /\ ~ret'.ok /\ ret'.op \in TaskCommands)
              => criticalTasks' = criticalTasks
       /\ (Called /\ ~retMap'.ok /\ retMap'.op \in TaskCommands)
              => criticalTasksMap' = criticalTasksMap]_vars

-----------------------------------------------------------------------------
(* C4: a task whose snoozedUntil is later than the current time is not       *)
(* completed.                                                               *)

C4_ActiveSnooze(task) == task.snoozedUntil # NULL /\ task.snoozedUntil[1] > now

C4_SnoozedImpliesNotCompleted ==
    /\ \A i \in 1..Len(criticalTasks) :
          C4_ActiveSnooze(criticalTasks[i]) => ~criticalTasks[i].completed
    /\ \A i \in 1..Len(criticalTasksMap) :
          C4_ActiveSnooze(criticalTasksMap[i]) => ~criticalTasksMap[i].completed

-----------------------------------------------------------------------------
(* C5: every task a store operation returns carries the priorityScore,       *)
(* escalationStage and visualIndicators the calculator yields for it at the  *)
(* time of the call.                                                        *)

C5_ReturnedTasksFresh ==
    [][Called =>
          /\ (ret'.ok /\ ret'.op \in TaskCommands)
                => Fresh(Stored(criticalTasks', ret'.id), now')
          /\ (retMap'.ok /\ retMap'.op \in TaskCommands)
                => Fresh(Stored(criticalTasksMap', retMap'.id), now')
          /\ \A options \in Options :
                /\ \A x \in Elements(getCriticalTasks(criticalTasks', options, now')) :
                      Fresh(x, now')
                /\ \A x \in Elements(getCriticalTasksMap(criticalTasksMap', options, now')) :
                      Fresh(x, now')
          /\ \A x \in Elements(getUrgentAlerts(criticalTasks', now')) : Fresh(x, now')
          /\ \A x \in Elements(getUrgentAlertsMap(criticalTasksMap', now')) : Fresh(x, now')
      ]_vars

-----------------------------------------------------------------------------
(* C6: completeTask on a task that is already completed fails with the       *)
(* already-completed error and leaves every field of the task unchanged.     *)

C6_Recompletion(tasks, tasksAfter, outcome, taskId) ==
    (Present(tasks, taskId) /\ Stored(tasks, taskId).completed)
        => /\ outcome = Thrown("completeTask", taskId, "Task is already completed")
           /\ Present(tasksAfter, taskId)
           /\ Stored(tasksAfter, taskId) = Stored(tasks, taskId)

C6_RecompleteFails ==
    [][\A taskId \in TaskIds :
          CompleteTask(taskId)
              => /\ C6_Recompletion(criticalTasks, criticalTasks', ret', taskId)
                 /\ C6_Recompletion(criticalTasksMap, criticalTasksMap', retMap', taskId)
      ]_vars

\* a task completed an hour ago has just been completed again, in vain
C6_Witness ==
    /\ ret = Thrown("completeTask", ret.id, "Task is already completed")
    /\ retMap = ret
    /\ Present(criticalTasks, ret.id)
    /\ Stored(criticalTasks, ret.id).completedAt = Some(now - 1)
    /\ Stored(criticalTasksMap, ret.id).completedAt = Some(now - 1)

-----------------------------------------------------------------------------
(* C7: snoozeTask on an existing, non-completed task with an until that does *)
(* not parse, or that is not later than the current time, fails and leaves   *)
(* snoozeCount, snoozedUntil and snoozeHistory unchanged.                    *)

C7_Rejected(tasks, tasksAfter, outcome, taskId) ==
    (Present(tasks, taskId) /\ ~Stored(tasks, taskId).completed)
        => /\ ~outcome.ok
           /\ outcome.op = "snoozeTask"
           /\ Present(tasksAfter, taskId)
           /\ Stored(tasksAfter, taskId).snoozeCount = Stored(tasks, taskId).snoozeCount
           /\ Stored(tasksAfter, taskId).snoozedUntil = Stored(tasks, taskId).snoozedUntil
           /\ Stored(tasksAfter, taskId).snoozeHistory = Stored(tasks, taskId).snoozeHistory

C7_BadUntilRejected ==
    [][\A taskId \in TaskIds, reason \in Reasons :
          \A until \in {u \in Untils(now) : u = NULL \/ u[1] <= now} :
              SnoozeTask(taskId, until, reason)
                  => /\ C7_Rejected(criticalTasks, criticalTasks', ret', taskId)
                     /\ C7_Rejected(criticalTasksMap, criticalTasksMap', retMap', taskId)
      ]_vars

\* a snooze of a pending task has just been refused for its date
C7_Witness ==
    /\ ret = Thrown("snoozeTask", ret.id, "Snooze time must be in the future")
    /\ retMap = ret
    /\ Present(criticalTasks, ret.id)
    /\ ~Stored(criticalTasks, ret.id).completed
    /\ Stored(criticalTasks, ret.id).snoozeCount = 0
    /\ Present(criticalTasksMap, ret.id)
    /\ Stored(criticalTasksMap, ret.id).snoozeHistory = <<>>

-----------------------------------------------------------------------------
(* C8: once a task's completed field is true, it is true in every later      *)
(* state in which the task still exists.                                    *)

C8_StaysCompleted(tasks, tasksAfter) ==
    \A taskId \in TaskIds :
        (Present(tasks, taskId) /\ Stored(tasks, taskId).completed
            /\ Present(tasksAfter, taskId))
        => Stored(tasksAfter, taskId).completed

C8_CompletedMonotonic ==
    [][/\ C8_StaysCompleted(criticalTasks, criticalTasks')
       /\ C8_StaysCompleted(criticalTasksMap, criticalTasksMap')]_vars

\* a micro-step of a completed task has just been marked incomplete
C8_Witness ==
    /\ ret.op = "updateMicroStep" /\ ret.ok
    /\ retMap.op = "updateMicroStep" /\ retMap.ok
    /\ Stored(criticalTasks, ret.id).completed
    /\ Stored(criticalTasksMap, retMap.id).completed
    /\ \E k \in 1..3 : ~Stored(criticalTasks, ret.id).microSteps[k].completed
    /\ Stored(criticalTasks, ret.id).notes # <<>>

-----------------------------------------------------------------------------
(* C9: clearCompleted removes exactly the tasks that are completed at call   *)
(* time, leaves the others unchanged and in place, returns the number        *)
(* removed, and no removed task is returned by a later                       *)
(* getCriticalTasks({includeCompleted: true}).                               *)

C9_Cleared(tasks, tasksAfter, outcome) ==
    /\ Ids(tasksAfter) = Ids(tasks) \ CompletedIds(tasks)
    /\ Len(tasksAfter) = Cardinality(Ids(tasksAfter))
    /\ \A i, j \in 1..Len(tasksAfter) :
          i < j => IndexOfId(tasks, tasksAfter[i].id) < IndexOfId(tasks, tasksAfter[j].id)
    /\ \A i \in 1..Len(tasksAfter) : tasksAfter[i] = Stored(tasks, tasksAfter[i].id)
    /\ outcome.ok
    /\ outcome.count = Cardinality(CompletedIds(tasks))

C9_ClearCompletedExact ==
    /\ [][ClearCompleted
              => /\ C9_Cleared(criticalTasks, criticalTasks', ret')
                 /\ C9_Cleared(criticalTasksMap, criticalTasksMap', retMap')]_vars
    /\ [](/\ Ids(getCriticalTasks(criticalTasks, Everything, now)) \cap removed = {}
          /\ Ids(getCriticalTasksMap(criticalTasksMap, Everything, now))
                \cap removedMap = {})

\* one of two tasks was cleared, and the collection has been queried since
C9_Witness ==
    /\ ret.op = "getCriticalTasks"
    /\ Cardinality(removed) = 1
    /\ removedMap = removed
    /\ Len(criticalTasks) = 1
    /\ Len(criticalTasksMap) = 1
    /\ nextId = 2

-----------------------------------------------------------------------------
(* C10: determineEscalationStage is the following table, read in order:      *)
(* no deadline -> urgent from 5 snoozes on, else normal; overdue by more     *)
(* than 72h -> emergency; by more than 24h -> critical; by any other         *)
(* positive amount -> urgent; less than 6h left -> critical; less than 24h   *)
(* -> urgent; less than 72h -> attention; otherwise urgent from 5 snoozes    *)
(* on, attention from 3 on, else normal.                                     *)

C10_Table(task, t) ==
    LET remaining == task.deadline[1] - t
        overdue == t - task.deadline[1]
    IN  CASE task.deadline = NULL /\ task.snoozeCount >= 5 -> "urgent"
          [] task.deadline = NULL /\ task.snoozeCount < 5 -> "normal"
          [] task.deadline # NULL /\ overdue > 72 -> "emergency"
          [] task.deadline # NULL /\ overdue > 24 /\ overdue <= 72 -> "critical"
          [] task.deadline # NULL /\ overdue > 0 /\ overdue <= 24 -> "urgent"
          [] task.deadline # NULL /\ remaining >= 0 /\ remaining < 6 -> "critical"
          [] task.deadline # NULL /\ remaining >= 6 /\ remaining < 24 -> "urgent"
          [] task.deadline # NULL /\ remaining >= 24 /\ remaining < 72 -> "attention"
          [] task.deadline # NULL /\ remaining >= 72 /\ task.snoozeCount >= 5 -> "urgent"
          [] task.deadline # NULL /\ remaining >= 72 /\ task.snoozeCount \in {3, 4}
                -> "attention"
          [] task.deadline # NULL /\ remaining >= 72 /\ task.snoozeCount < 3 -> "normal"

C10_Boundaries(task, t, stage) ==
    task.deadline # NULL =>
        LET remaining == task.deadline[1] - t
        IN  /\ remaining = 0 => stage = "critical"
            /\ remaining = 6 => stage = "urgent"
            /\ remaining = 24 => stage = "attention"
            /\ remaining = 72 => stage = (IF task.snoozeCount >= 5 THEN "urgent"
                                           ELSE IF task.snoozeCount >= 3 THEN "attention"
                                           ELSE "normal")
            /\ remaining = -24 => stage = "urgent"
            /\ remaining = -72 => stage = "critical"

C10_StageTable ==
    calc.evaluated
        => /\ calc.escalationStage = C10_Table(probe, now)
           /\ C10_Boundaries(probe, now, calc.escalationStage)

\* a task with exactly 72 hours left and three snoozes has been classified
C10_Witness ==
    /\ calc.evaluated
    /\ probe.deadline = Some(now + 72)
    /\ probe.snoozeCount = 3
    /\ calc.escalationStage = "attention"

-----------------------------------------------------------------------------
(* C11: a task whose deadline is more than 72 hours in the past has stage    *)
(* emergency, whatever its importance, snoozeCount and snoozedUntil are.     *)

C11_OverdueIsEmergency ==
    (calc.evaluated /\ probe.deadline # NULL /\ now - probe.deadline[1] > 72)
        => calc.escalationStage = "emergency"

\* a task of low importance, 73 hours overdue, never snoozed but with a
\* snooze date ahead, has been classified
C11_Witness ==
    /\ calc.evaluated
    /\ probe.deadline = Some(now - 73)
    /\ probe.importance = "low"
    /\ probe.snoozeCount = 0
    /\ probe.snoozedUntil = Some(now + 1)

-----------------------------------------------------------------------------
(* C12: calculatePriorityScore is max(0, S2 + 20 * snoozeCount), where S1 is *)
(* the importance weight plus the deadline term plus the recency term, and   *)
(* S2 is max(0, S1 - 100) while snoozedUntil is later than now, else S1.     *)

C12_Weight(importance) ==
    CASE importance = "critical" -> 100
      [] importance = "high" -> 50
      [] importance = "medium" -> 25
      [] importance = "low" -> 10
      [] OTHER -> 25

C12_DeadlineTerm(task, t) ==
    CASE task.deadline = NULL -> 0
      [] task.deadline # NULL /\ task.deadline[1] < t -> 200 + (10 * (t - task.deadline[1]))
      [] task.deadline # NULL /\ task.deadline[1] - t \in 0..23 -> 150
      [] task.deadline # NULL /\ task.deadline[1] - t \in 24..71 -> 100
      [] task.deadline # NULL /\ task.deadline[1] - t \in 72..167 -> 50
      [] OTHER -> 0

C12_RecencyTerm(task, t) ==
    CASE t - task.createdAt < 1 -> 30
      [] t - task.createdAt \in 1..23 -> 10
      [] OTHER -> 0

C12_Score(task, t) ==
    LET S1 == C12_Weight(task.importance) + C12_DeadlineTerm(task, t)
                  + C12_RecencyTerm(task, t)
        S2 == IF task.snoozedUntil # NULL /\ task.snoozedUntil[1] > t
                  THEN Max(0, S1 - 100) ELSE S1
    IN  Max(0, S2 + (20 * task.snoozeCount))

-----------------------------------------------------------------------------
(* C13: of two tasks that differ only in snoozeCount, scored at the same     *)
(* time, the one with the larger snoozeCount scores at least as much.        *)

C13_MonotoneInSnoozeCount ==
    calc.evaluated =>
        \A n \in 0..MaxProbeSnoozeCount :
            n >= probe.snoozeCount
                => calculatePriorityScore([probe EXCEPT !.snoozeCount = n], now)
                       >= calc.priorityScore

\* a sleeping task snoozed three times has been scored, and the same task
\* snoozed four times scores strictly more
C13_Witness ==
    /\ calc.evaluated
    /\ probe.snoozeCount = 3
    /\ probe.snoozedUntil = Some(now + 1)
    /\ probe.importance = "low"
    /\ calculatePriorityScore([probe EXCEPT !.snoozeCount = 4], now) > calc.priorityScore

-----------------------------------------------------------------------------
(* C14: a task of importance high with no deadline that a successful         *)
(* snoozeTask call leaves snoozed until one hour after the current time has  *)
(* priority score 0 and stage normal.                                        *)

C14_Scenario(task) ==
    (task.importance = "high" /\ task.deadline = NULL /\ task.snoozedUntil = Some(now + 1))
        => /\ task.priorityScore = 0
           /\ calculatePriorityScore(task, now) = 0
           /\ task.escalationStage = "normal"
           /\ determineEscalationStage(task, now) = "normal"

C14_SnoozedHighScoresZero ==
    [][\A taskId \in TaskIds, reason \in Reasons :
          (SnoozeTask(taskId, Some(now + 1), reason) /\ ret'.ok /\ retMap'.ok)
              => /\ C14_Scenario(Stored(criticalTasks', taskId))
                 /\ C14_Scenario(Stored(criticalTasksMap', taskId))]_vars

-----------------------------------------------------------------------------
(* C15: a successful snoozeTask never leaves the task with a higher priority *)
(* score than the calculator gave it at the same instant just before.        *)

C15_NotHigher(tasks, tasksAfter, outcome) ==
    (outcome.op = "snoozeTask" /\ outcome.ok)
        => Stored(tasksAfter, outcome.id).priorityScore
               <= calculatePriorityScore(Stored(tasks, outcome.id), now)

C15_SnoozeNeverRaisesScore ==
    [][(\E taskId \in TaskIds, until \in Untils(now), reason \in Reasons :
            SnoozeTask(taskId, until, reason))
          => /\ C15_NotHigher(criticalTasks, criticalTasks', ret')
             /\ C15_NotHigher(criticalTasksMap, criticalTasksMap', retMap')]_vars

-----------------------------------------------------------------------------
(* C16: getUrgentAlerts returns exactly the non-completed tasks whose stage  *)
(* recomputed at call time is critical or emergency, by non-increasing       *)
(* priority score: getCriticalTasks() without the tasks of another stage.    *)

C16_AlertStages == {"critical", "emergency"}

C16_Alerts(alerts, unlimited, tasks) ==
    /\ alerts = SelectSeq(unlimited, LAMBDA x : x.escalationStage \in C16_AlertStages)
    /\ SortedByScore(alerts)
    /\ Len(alerts) = Cardinality(Ids(alerts))
    /\ Ids(alerts) = {tasks[i].id : i \in {j \in 1..Len(tasks) :
                          /\ ~tasks[j].completed
                          /\ determineEscalationStage(tasks[j], now) \in C16_AlertStages}}
    /\ \A i \in 1..Len(alerts) : Fresh(alerts[i], now)

C16_UrgentAlertsExact ==
    /\ C16_Alerts(getUrgentAlerts(criticalTasks, now),
                  getCriticalTasks(criticalTasks, ByStage(""), now), criticalTasks)
    /\ C16_Alerts(getUrgentAlertsMap(criticalTasksMap, now),
                  getCriticalTasksMap(criticalTasksMap, ByStage(""), now), criticalTasksMap)

\* alerts were asked for an hour after two tasks were added: the first, then
\* urgent, is now critical, and the second, an emergency, is listed before it
C16_Witness ==
    /\ ret.op = "getUrgentAlerts"
    /\ now = 1
    /\ Len(criticalTasks) = 2
    /\ criticalTasks[1].escalationStage = "urgent"
    /\ LET alerts == getUrgentAlerts(criticalTasks, now)
       IN  /\ Len(alerts) = 2
           /\ alerts[1].id = criticalTasks[2].id
           /\ alerts[1].escalationStage = "emergency"
           /\ alerts[2].escalationStage = "critical"
    /\ Len(getUrgentAlertsMap(criticalTasksMap, now)) = 2

-----------------------------------------------------------------------------
(* C17: for every positive n, getTopPriorityTasks(n) returns what            *)
(* getCriticalTasks({limit: n}) returns, and that is the first min(n, k)     *)
(* elements of the k elements getCriticalTasks() returns at the same time.   *)

C17_Counts == 1..(MaxTasks + 1)

C17_Prefix(top, limited, unlimited, n) ==
    /\ top = limited
    /\ Len(top) = (IF n < Len(unlimited) THEN n ELSE Len(unlimited))
    /\ \A i \in 1..Len(top) : top[i] = unlimited[i]

C17_TopIsPrefix ==
    \A n \in C17_Counts :
        /\ C17_Prefix(getTopPriorityTasks(criticalTasks, n, now),
                      getCriticalTasks(criticalTasks,
                          [includeCompleted |-> FALSE, escalationStage |-> "", limit |-> n],
                          now),
                      getCriticalTasks(criticalTasks, ByStage(""), now), n)
        /\ C17_Prefix(getTopPriorityTasksMap(criticalTasksMap, n, now),
                      getCriticalTasksMap(criticalTasksMap,
                          [includeCompleted |-> FALSE, escalationStage |-> "", limit |-> n],
                          now),
                      getCriticalTasksMap(criticalTasksMap, ByStage(""), now), n)

\* the top task was asked for while two pending tasks were stored, the one
\* with the higher score last
C17_Witness ==
    /\ ret.op = "getTopPriorityTasks"
    /\ Len(criticalTasks) = 2
    /\ ~criticalTasks[1].completed
    /\ ~criticalTasks[2].completed
    /\ calculatePriorityScore(criticalTasks[1], now)
          < calculatePriorityScore(criticalTasks[2], now)
    /\ getTopPriorityTasks(criticalTasks, 1, now)
          = <<updateTaskMetrics(criticalTasks[2], now)>>
    /\ Len(getTopPriorityTasksMap(criticalTasksMap, 1, now)) = 1

-----------------------------------------------------------------------------
(* C18: a successful snoozeTask(id, until, reason) sets snoozedUntil to      *)
(* until, adds 1 to snoozeCount, appends the one entry {snoozedAt: now,      *)
(* snoozedUntil: until, reason} (the reason trimmed) to snoozeHistory,       *)
(* recomputes the derived fields, and changes no other task and no other     *)
(* authoritative field of the task except updatedAt.                         *)

C18_Authoritative(task) ==
    [task EXCEPT !.priorityScore = 0, !.escalationStage = "normal",
                 !.visualIndicators = NULL, !.updatedAt = 0]

C18_Snoozed(tasks, tasksAfter, outcome, taskId, until, reason) ==
    outcome.ok =>
        LET i == IndexOfId(tasks, taskId)
            entry == [snoozedAt |-> now, snoozedUntil |-> until,
                      reason |-> trim(reason.chars)]
        IN  /\ Len(tasksAfter) = Len(tasks)
            /\ \A j \in 1..Len(tasks) : j # i => tasksAfter[j] = tasks[j]
            /\ tasksAfter[i].snoozedUntil = until
            /\ tasksAfter[i].snoozeCount = tasks[i].snoozeCount + 1
            /\ tasksAfter[i].snoozeHistory = Append(tasks[i].snoozeHistory, entry)
            /\ tasksAfter[i].updatedAt = now
            /\ Fresh(tasksAfter[i], now)
            /\ C18_Authoritative(tasksAfter[i])
                  = C18_Authoritative([tasks[i] EXCEPT
                        !.snoozedUntil = until,
                        !.snoozeCount = tasks[i].snoozeCount + 1,
                        !.snoozeHistory = tasksAfter[i].snoozeHistory])

C18_SnoozeEffect ==
    [][\A taskId \in TaskIds, until \in Untils(now), reason \in Reasons :
          SnoozeTask(taskId, until, reason)
              => /\ C18_Snoozed(criticalTasks, criticalTasks', ret', taskId, until, reason)
                 /\ C18_Snoozed(criticalTasksMap, criticalTasksMap', retMap', taskId, until,
                                reason)]_vars

-----------------------------------------------------------------------------
(* C19: a successful completeTask(id) sets completed to true and completedAt *)
(* and updatedAt to the current time on that task, and leaves every other    *)
(* task and every other authoritative field of that task unchanged.          *)

C19_Completed(tasks, tasksAfter, outcome, taskId) ==
    outcome.ok =>
        LET i == IndexOfId(tasks, taskId)
        IN  /\ Len(tasksAfter) = Len(tasks)
            /\ \A j \in 1..Len(tasks) : j # i => tasksAfter[j] = tasks[j]
            /\ tasksAfter[i].completed
            /\ tasksAfter[i].completedAt = Some(now)
            /\ tasksAfter[i].updatedAt = now
            /\ C18_Authoritative(tasksAfter[i])
                  = C18_Authoritative([tasks[i] EXCEPT !.completed = TRUE,
                                                       !.completedAt = Some(now)])

C19_CompleteEffect ==
    [][\A taskId \in TaskIds :
          CompleteTask(taskId)
              => /\ C19_Completed(criticalTasks, criticalTasks', ret', taskId)
                 /\ C19_Completed(criticalTasksMap, criticalTasksMap', retMap', taskId)]_vars

\* the second of two tasks, snoozed and still asleep, has just been completed
\* an hour after it was added
C19_Witness ==
    /\ ret = Returned("completeTask", 2)
    /\ retMap = ret
    /\ now = 1
    /\ Len(criticalTasks) = 2
    /\ criticalTasks[2].completedAt = Some(1)
    /\ criticalTasks[2].createdAt = 0
    /\ criticalTasks[2].snoozedUntil = Some(2)
    /\ criticalTasks[2].snoozeCount = 1
    /\ criticalTasksMap[2].snoozedUntil = Some(2)

-----------------------------------------------------------------------------
(* C20: addCriticalTask fails and leaves the collection unchanged when the   *)
(* title is missing or empty after trimming; for any other title text the    *)
(* collection grows by exactly one task with a fresh identifier,             *)
(* completed=false, snoozeCount=0, snoozedUntil unset, empty notes and       *)
(* snoozeHistory, importance defaulting to high, and the tasks already       *)
(* stored unchanged.                                                         *)

C20_TitleMissing(title) ==
    \/ title.type = "undefined"
    \/ title.type = "string" /\ trim(title.chars) = <<>>

C20_Added(tasks, tasksAfter, outcome, gone, taskData) ==
    /\ C20_TitleMissing(taskData.title)
          => (~outcome.ok /\ outcome.op = "addCriticalTask" /\ tasksAfter = tasks)
    /\ (taskData.title.type = "string" /\ ~C20_TitleMissing(taskData.title))
          => /\ outcome.ok
             /\ Len(tasksAfter) = Len(tasks) + 1
             /\ SubSeq(tasksAfter, 1, Len(tasks)) = tasks
             /\ LET task == tasksAfter[Len(tasksAfter)]
                IN  /\ task.id \notin (Ids(tasks) \cup gone)
                    /\ task.id = outcome.id
                    /\ task.title = trim(taskData.title.chars)
                    /\ ~task.completed
                    /\ task.snoozeCount = 0
                    /\ task.snoozedUntil = NULL
                    /\ task.notes = <<>>
                    /\ task.snoozeHistory = <<>>
                    /\ task.importance = (IF taskData.importance = "" THEN "high"
                                          ELSE taskData.importance)

-----------------------------------------------------------------------------
(* C21: getStats returns total = number of tasks, completed = number of      *)
(* completed tasks, active = total - completed, overdue = number of active   *)
(* tasks whose deadline is earlier than now, snoozed = number of active      *)
(* tasks whose snoozedUntil is later than now; so overdue <= active and      *)
(* snoozed <= active.                                                        *)

C21_Active(tasks) == {i \in 1..Len(tasks) : ~tasks[i].completed}

C21_Counts(stats, tasks) ==
    /\ stats.total = Len(tasks)
    /\ stats.completed = Cardinality({i \in 1..Len(tasks) : tasks[i].completed})
    /\ stats.active = stats.total - stats.completed
    /\ stats.overdue = Cardinality({i \in C21_Active(tasks) :
                            tasks[i].deadline # NULL /\ tasks[i].deadline[1] < now})
    /\ stats.snoozed = Cardinality({i \in C21_Active(tasks) :
                            tasks[i].snoozedUntil # NULL /\ tasks[i].snoozedUntil[1] > now})
    /\ stats.overdue <= stats.active
    /\ stats.snoozed <= stats.active

C21_StatsCounts ==
    /\ C21_Counts(getStats(criticalTasks, now), criticalTasks)
    /\ C21_Counts(getStatsMap(criticalTasksMap, now), criticalTasksMap)

\* statistics were asked for while two overdue tasks were stored, the first
\* completed, the second pending and asleep
C21_Witness ==
    /\ ret.op = "getStats"
    /\ Len(criticalTasks) = 2
    /\ criticalTasks[1].completed
    /\ criticalTasks[1].deadline # NULL /\ criticalTasks[1].deadline[1] < now
    /\ ~criticalTasks[2].completed
    /\ criticalTasks[2].deadline # NULL /\ criticalTasks[2].deadline[1] < now
    /\ criticalTasks[2].snoozedUntil = Some(now + 1)
    /\ getStats(criticalTasks, now).overdue = 1
    /\ getStatsMap(criticalTasksMap, now).snoozed = 1

-----------------------------------------------------------------------------
(* C22: each per-stage count of getStats (emergency, critical, urgent) is    *)
(* the number of active tasks whose stage recomputed at the time of the call *)
(* is that stage, also when nothing touched the tasks since time changed     *)
(* their stage.                                                              *)

C22_InStage(tasks, stage) ==
    Cardinality({i \in C21_Active(tasks) : determineEscalationStage(tasks[i], now) = stage})

C22_Stages(stats, tasks) ==
    /\ stats.emergency = C22_InStage(tasks, "emergency")
    /\ stats.critical = C22_InStage(tasks, "critical")
    /\ stats.urgent = C22_InStage(tasks, "urgent")

C22_StatsStagesFresh ==
    /\ C22_Stages(getStats(criticalTasks, now), criticalTasks)
    /\ C22_Stages(getStatsMap(criticalTasksMap, now), criticalTasksMap)

-----------------------------------------------------------------------------
(* C23: a task that has been added stays in the collection until it is       *)
(* deleted by identifier or removed by clearCompleted while completed; no    *)
(* query, no snooze, complete, note or step command and no time advance      *)
(* removes a task.                                                           *)

C23_Stays(tasks, tasksAfter) ==
    \A id \in Ids(tasks) :
        \/ id \in Ids(tasksAfter)
        \/ HandleDelete(id)
        \/ ClearCompleted /\ Stored(tasks, id).completed

C23_RemovedOnlyExplicitly ==
    [][/\ C23_Stays(criticalTasks, criticalTasks')
       /\ C23_Stays(criticalTasksMap, criticalTasksMap')]_vars

\* an hour after it was added the task, snoozed twice, annotated and
\* completed since, is still stored and has just been queried
C23_Witness ==
    /\ ret.op = "getCriticalTasks"
    /\ now = 1
    /\ Present(criticalTasks, 1) /\ Present(criticalTasksMap, 1)
    /\ Stored(criticalTasks, 1).createdAt = 0
    /\ Stored(criticalTasks, 1).completed
    /\ Stored(criticalTasks, 1).snoozeCount = 2
    /\ Stored(criticalTasks, 1).notes # <<>>

-----------------------------------------------------------------------------
(* C24: getCriticalTasks, getTopPriorityTasks, getUrgentAlerts and getStats  *)
(* leave the membership of the collection and every authoritative field of   *)
(* every stored task unchanged, for every option combination.                *)

C24_Authoritative(task) ==
    [task EXCEPT !.priorityScore = 0, !.escalationStage = "normal",
                 !.visualIndicators = NULL]

C24_Query ==
    \/ \E options \in Options : GetCriticalTasks(options)
    \/ \E count \in Limits : GetTopPriorityTasks(count)
    \/ GetUrgentAlerts
    \/ GetStats

C24_Untouched(tasks, tasksAfter) ==
    /\ Len(tasksAfter) = Len(tasks)
    /\ \A i \in 1..Len(tasks) :
          C24_Authoritative(tasksAfter[i]) = C24_Authoritative(tasks[i])

C24_QueriesKeepAuthoritative ==
    [][C24_Query => /\ C24_Untouched(criticalTasks, criticalTasks')
                    /\ C24_Untouched(criticalTasksMap, criticalTasksMap')]_vars

\* a query made an hour after the task was added has refreshed the stage the
\* Map-backed manager stores
C24_Witness ==
    /\ ret.op = "getCriticalTasks"
    /\ now = 1
    /\ Len(criticalTasks) >= 1
    /\ Len(criticalTasksMap) = Len(criticalTasks)
    /\ criticalTasks[1].escalationStage = "urgent"
    /\ criticalTasksMap[1].escalationStage = "critical"
    /\ criticalTasksMap[1].updatedAt = 0

-----------------------------------------------------------------------------
(* C25: after creation a task's microSteps keeps its length and its step     *)
(* identifiers, descriptions and durations; updateMicroStep(id, stepId, c)   *)
(* fails without change if the task or the step does not exist, otherwise    *)
(* sets the named step's completed flag to c and leaves the other flags.     *)

C25_Shape(microSteps) ==
    [k \in 1..Len(microSteps) |->
        [id |-> microSteps[k].id, description |-> microSteps[k].description,
         duration |-> microSteps[k].duration]]

C25_ShapeKept(tasks, tasksAfter) ==
    \A id \in Ids(tasks) \cap Ids(tasksAfter) :
        C25_Shape(Stored(tasksAfter, id).microSteps) = C25_Shape(Stored(tasks, id).microSteps)

C25_FlagsKept(tasks, tasksAfter) ==
    \A id \in Ids(tasks) \cap Ids(tasksAfter) :
        Stored(tasksAfter, id).microSteps = Stored(tasks, id).microSteps

C25_Stepped(tasks, tasksAfter, outcome, taskId, stepId, completed) ==
    IF ~Present(tasks, taskId)
           \/ stepId \notin Ids(Stored(tasks, taskId).microSteps)
        THEN ~outcome.ok /\ tasksAfter = tasks
        ELSE /\ outcome.ok
             /\ \A k \in 1..Len(Stored(tasks, taskId).microSteps) :
                   Stored(tasksAfter, taskId).microSteps[k].completed
                       = (IF Stored(tasks, taskId).microSteps[k].id = stepId
                              THEN completed
                              ELSE Stored(tasks, taskId).microSteps[k].completed)

C25_MicroStepsFixed ==
    [][/\ C25_ShapeKept(criticalTasks, criticalTasks')
       /\ C25_ShapeKept(criticalTasksMap, criticalTasksMap')
       /\ \A taskId \in TaskIds :
             \A stepId \in StepIds(taskId), completed \in BOOLEAN :
                 UpdateMicroStep(taskId, stepId, completed)
                     => /\ C25_Stepped(criticalTasks, criticalTasks', ret', taskId, stepId,
                                       completed)
                        /\ C25_Stepped(criticalTasksMap, criticalTasksMap', retMap', taskId,
                                       stepId, completed)
       /\ ret'.op # "updateMicroStep"
             => /\ C25_FlagsKept(criticalTasks, criticalTasks')
                /\ C25_FlagsKept(criticalTasksMap, criticalTasksMap')]_vars

\* the first step of the task has just been marked done, the other two are
\* not
C25_Witness ==
    /\ ret = Returned("updateMicroStep", 1)
    /\ retMap = ret
    /\ Present(criticalTasks, 1)
    /\ Stored(criticalTasks, 1).microSteps[1].completed
    /\ ~Stored(criticalTasks, 1).microSteps[2].completed
    /\ ~Stored(criticalTasks, 1).microSteps[3].completed
    /\ Stored(criticalTasksMap, 1).microSteps = Stored(criticalTasks, 1).microSteps

-----------------------------------------------------------------------------
(* C26: notes and snoozeHistory are append-only: each has its earlier value  *)
(* as a prefix in every later state; a successful addNote appends exactly    *)
(* one note with the trimmed text, a successful snoozeTask appends exactly   *)
(* one history entry, and no other operation changes either sequence.        *)

C26_Prefix(s, r) == Len(s) <= Len(r) /\ SubSeq(r, 1, Len(s)) = s

C26_Logs(tasks, tasksAfter, outcome) ==
    \A id \in Ids(tasks) \cap Ids(tasksAfter) :
        LET task == Stored(tasks, id)
            after == Stored(tasksAfter, id)
        IN  /\ C26_Prefix(task.notes, after.notes)
            /\ C26_Prefix(task.snoozeHistory, after.snoozeHistory)
            /\ Len(after.notes) =
                  (IF outcome.op = "addNote" /\ outcome.ok /\ outcome.id = id
                       THEN Len(task.notes) + 1 ELSE Len(task.notes))
            /\ Len(after.snoozeHistory) =
                  (IF outcome.op = "snoozeTask" /\ outcome.ok /\ outcome.id = id
                       THEN Len(task.snoozeHistory) + 1 ELSE Len(task.snoozeHistory))

C26_NoteAdded(tasksAfter, outcome, taskId, noteText) ==
    outcome.ok =>
        LET notes == Stored(tasksAfter, taskId).notes
        IN  /\ notes[Len(notes)].text = trim(noteText.chars)
            /\ notes[Len(notes)].createdAt = now

C26_AppendOnly ==
    [][Called =>
          /\ C26_Logs(criticalTasks, criticalTasks', ret')
          /\ C26_Logs(criticalTasksMap, criticalTasksMap', retMap')
          /\ \A taskId \in TaskIds, noteText \in NoteTexts :
                AddNote(taskId, noteText)
                    => /\ C26_NoteAdded(criticalTasks', ret', taskId, noteText)
                       /\ C26_NoteAdded(criticalTasksMap', retMap', taskId, noteText)]_vars

\* the task carries two notes and two history entries, the later ones made
\* an hour after the earlier ones
C26_Witness ==
    /\ Present(criticalTasks, 1) /\ Present(criticalTasksMap, 1)
    /\ Len(Stored(criticalTasks, 1).notes) = 2
    /\ Stored(criticalTasks, 1).notes[1].createdAt = 0
    /\ Stored(criticalTasks, 1).notes[2].createdAt = 1
    /\ Stored(criticalTasks, 1).notes[2].text = <<"n">>
    /\ Len(Stored(criticalTasks, 1).snoozeHistory) = 2
    /\ Len(Stored(criticalTasksMap, 1).snoozeHistory) = 2

-----------------------------------------------------------------------------
(* C27: a task whose deadline has passed is never classified below critical: *)
(* for every overdue amount greater than zero its stage is critical or       *)
(* emergency.                                                                *)

C27_OverdueAtLeastCritical ==
    (calc.evaluated /\ probe.deadline # NULL /\ probe.deadline[1] < now)
        => calc.escalationStage \in {"critical", "emergency"}

-----------------------------------------------------------------------------
(* C28: snoozeTask on a completed task fails whatever until and reason are   *)
(* and leaves the task unchanged; the checks come in the order not found,    *)
(* already completed, unparseable date, not in the future.                   *)

C28_Refused(tasks, tasksAfter, outcome, taskId, error) ==
    outcome = Thrown("snoozeTask", taskId, error) /\ tasksAfter = tasks

C28_Order(tasks, tasksAfter, outcome, taskId, until) ==
    IF ~Present(tasks, taskId)
        THEN C28_Refused(tasks, tasksAfter, outcome, taskId, "Task not found")
    ELSE IF Stored(tasks, taskId).completed
        THEN C28_Refused(tasks, tasksAfter, outcome, taskId, "Cannot snooze a completed task")
    ELSE IF until = NULL
        THEN C28_Refused(tasks, tasksAfter, outcome, taskId, "Invalid snooze date")
    ELSE IF until[1] <= now
        THEN C28_Refused(tasks, tasksAfter, outcome, taskId,
                         "Snooze time must be in the future")
    ELSE TRUE

C28_CompletedNeverSnoozed ==
    [][\A taskId \in TaskIds, until \in Untils(now), reason \in Reasons :
          SnoozeTask(taskId, until, reason)
              => /\ C28_Order(criticalTasks, criticalTasks', ret', taskId, until)
                 /\ C28_Order(criticalTasksMap, criticalTasksMap', retMap', taskId, until)
      ]_vars

\* a snooze of the completed task, never snoozed before, has just been refused
C28_Witness ==
    /\ ret = Thrown("snoozeTask", 1, "Cannot snooze a completed task")
    /\ retMap = ret
    /\ Present(criticalTasks, 1) /\ Present(criticalTasksMap, 1)
    /\ Stored(criticalTasks, 1).completed
    /\ Stored(criticalTasks, 1).snoozedUntil = NULL
    /\ Stored(criticalTasks, 1).snoozeCount = 0
    /\ Stored(criticalTasksMap, 1).snoozeHistory = <<>>

-----------------------------------------------------------------------------
(* C29: for a task with a deadline whose authoritative fields do not change, *)
(* the stage never moves to a less severe one as time advances (normal <     *)
(* attention < urgent < critical < emergency), for every snoozeCount.        *)

C29_Severity(stage) ==
    CASE stage = "normal" -> 0
      [] stage = "attention" -> 1
      [] stage = "urgent" -> 2
      [] stage = "critical" -> 3
      [] stage = "emergency" -> 4

C29_StageNeverRelaxes ==
    (calc.evaluated /\ probe.deadline # NULL)
        => C29_Severity(determineEscalationStage(probe, now + 1))
               >= C29_Severity(calc.escalationStage)

-----------------------------------------------------------------------------
(* C30: as time keeps advancing, every task that has a deadline and is       *)
(* neither completed nor removed reaches stage emergency, and from then on   *)
(* every getUrgentAlerts call returns it and getStats().emergency counts it, *)
(* even while it is snoozed and if no command touches it again.  Stated for  *)
(* the time from which the stage is emergency.                               *)

C30_Due(tasks) ==
    {i \in 1..Len(tasks) :
        /\ ~tasks[i].completed
        /\ tasks[i].deadline # NULL
        /\ determineEscalationStage(tasks[i], now) = "emergency"}

C30_Shown(alerts, stats, tasks) ==
    /\ \A i \in C30_Due(tasks) : tasks[i].id \in Ids(alerts)
    /\ stats.emergency >= Cardinality(C30_Due(tasks))

C30_EmergencyAlwaysShown ==
    /\ C30_Shown(getUrgentAlerts(criticalTasks, now), getStats(criticalTasks, now),
                 criticalTasks)
    /\ C30_Shown(getUrgentAlertsMap(criticalTasksMap, now),
                 getStatsMap(criticalTasksMap, now), criticalTasksMap)

-----------------------------------------------------------------------------
(* C31: a task without a deadline is never returned by getUrgentAlerts,      *)
(* whatever its importance and however many times it has been snoozed, and   *)
(* its stage is only ever normal or urgent.  Checked in every state of the   *)
(* repeatedly snoozed task, for the snoozeCount it has and for every         *)
(* snoozeCount up to MaxProbeSnoozeCount in its place.                       *)

\* the store with n snoozes counted on every task that has no deadline
C31_Snoozed(tasks, n) ==
    [i \in 1..Len(tasks) |->
        IF tasks[i].deadline = NULL THEN [tasks[i] EXCEPT !.snoozeCount = n]
        ELSE tasks[i]]

C31_Quiet(tasks, alerts) ==
    \A i \in 1..Len(tasks) :
        tasks[i].deadline = NULL
            => /\ determineEscalationStage(tasks[i], now) \in {"normal", "urgent"}
               /\ tasks[i].id \notin Ids(alerts)

C31_NoDeadlineNeverAlerted ==
    /\ C31_Quiet(criticalTasks, getUrgentAlerts(criticalTasks, now))
    /\ C31_Quiet(criticalTasksMap, getUrgentAlertsMap(criticalTasksMap, now))
    /\ \A n \in 0..MaxProbeSnoozeCount :
           /\ C31_Quiet(C31_Snoozed(criticalTasks, n),
                        getUrgentAlerts(C31_Snoozed(criticalTasks, n), now))
           /\ C31_Quiet(C31_Snoozed(criticalTasksMap, n),
                        getUrgentAlertsMap(C31_Snoozed(criticalTasksMap, n), now))

\* a critical task without a deadline, snoozed twice and not completed
C31_Witness ==
    /\ Present(criticalTasks, 1) /\ Present(criticalTasksMap, 1)
    /\ Stored(criticalTasks, 1).deadline = NULL
    /\ Stored(criticalTasks, 1).importance = "critical"
    /\ Stored(criticalTasks, 1).snoozeCount = MaxRepeatSnoozes
    /\ Len(Stored(criticalTasks, 1).snoozeHistory) = MaxRepeatSnoozes
    /\ ~Stored(criticalTasks, 1).completed
    /\ Stored(criticalTasksMap, 1).deadline = NULL
    /\ Stored(criticalTasksMap, 1).snoozeCount = MaxRepeatSnoozes
    /\ getUrgentAlerts(criticalTasks, now) = <<>>
    /\ getUrgentAlertsMap(criticalTasksMap, now) = <<>>

-----------------------------------------------------------------------------
(* C32: in every reachable state, for every task, snoozeCount equals the     *)
(* number of entries of snoozeHistory, and when snoozeCount > 0 the task's   *)
(* snoozedUntil is the snoozedUntil of the last history entry; after failed  *)
(* as well as successful snoozeTask calls, with any reason value.            *)

C32_Logged(tasks) ==
    \A i \in 1..Len(tasks) :
        /\ tasks[i].snoozeCount = Len(tasks[i].snoozeHistory)
        /\ tasks[i].snoozeCount > 0
              => tasks[i].snoozedUntil
                     = tasks[i].snoozeHistory[Len(tasks[i].snoozeHistory)].snoozedUntil

C32_SnoozeCountIsHistoryLength ==
    C32_Logged(criticalTasks) /\ C32_Logged(criticalTasksMap)

-----------------------------------------------------------------------------
(* C33: the array manager and the Map manager are observationally            *)
(* equivalent: after every sequence of commands and at every observation     *)
(* time, getCriticalTasks (all option combinations), getTopPriorityTasks,    *)
(* getUrgentAlerts and getStats return the same task identifiers in the same *)
(* order with the same derived fields and the same counts in both.           *)

\* what a caller observes of a returned list
C33_Observed(tasks) ==
    [i \in 1..Len(tasks) |->
        [id |-> tasks[i].id,
         priorityScore |-> tasks[i].priorityScore,
         escalationStage |-> tasks[i].escalationStage,
         visualIndicators |-> tasks[i].visualIndicators]]

C33_ManagersEquivalent ==
    /\ \A options \in Options :
           C33_Observed(getCriticalTasks(criticalTasks, options, now))
               = C33_Observed(getCriticalTasksMap(criticalTasksMap, options, now))
    /\ \A count \in Limits \ {0} :
           C33_Observed(getTopPriorityTasks(criticalTasks, count, now))
               = C33_Observed(getTopPriorityTasksMap(criticalTasksMap, count, now))
    /\ C33_Observed(getUrgentAlerts(criticalTasks, now))
           = C33_Observed(getUrgentAlertsMap(criticalTasksMap, now))
    /\ getStats(criticalTasks, now) = getStatsMap(criticalTasksMap, now)

-----------------------------------------------------------------------------
(* C34: after any sequence of set, get, delete and clear on a cache with     *)
(* maxSize >= 1, the number of stored entries never exceeds maxSize once an  *)
(* operation has returned, and a set of an already-present key never changes *)
(* the number of entries.  Stated on the state each operation leaves; the    *)
(* cache is empty when it is constructed.                                    *)

C34_Entries(c) == Cardinality(DOMAIN c.cache)

C34_SizeBounded ==
    [][/\ C34_Entries(zepCache') <= zepCache'.maxSize
       /\ \A key \in DOMAIN zepCache.cache, value \in CacheValues :
              CacheSet(key, value) => /\ C34_Entries(zepCache') = C34_Entries(zepCache)
                                      /\ zepCache'.size = zepCache.size]_vars

\* the cache is full, an entry was evicted to keep it so, and the value of a
\* stored key was replaced by a later set
C34_Witness ==
    /\ C34_Entries(zepCache) = zepCache.maxSize
    /\ zepCache.stats.evictions > 0
    /\ \E key \in DOMAIN zepCache.cache :
           /\ zepCache.cache[key].value = JsString(<<"w">>)
           /\ zepCache.cache[key].timestamp = MaxCacheTime

-----------------------------------------------------------------------------
(* C35: when set inserts a new key into a cache that already holds maxSize   *)
(* entries, exactly one entry is removed and it is the one whose most recent *)
(* use (a get that hit it or a set of its key) is the oldest; every other    *)
(* entry and the new one remain retrievable, and evictions grows by one.     *)

\* get returns this value for the key at the instant of the lookup
C35_Retrievable(c, key, value, t) == get(c, key, t).value = value

C35_EvictsLeastRecentlyUsed ==
    [][\A key \in CacheKeys \ DOMAIN zepCache.cache, value \in CacheValues :
          (CacheSet(key, value) /\ C34_Entries(zepCache) = zepCache.maxSize)
              => LET lru == used[Len(used)]
                     kept == (DOMAIN zepCache.cache) \ {lru}
                 IN  /\ lru \in DOMAIN zepCache.cache
                     /\ DOMAIN zepCache'.cache = kept \cup {key}
                     /\ \A k \in kept :
                            /\ zepCache'.cache[k].value = zepCache.cache[k].value
                            /\ zepCache'.cache[k].timestamp = zepCache.cache[k].timestamp
                            /\ Alive(k) => C35_Retrievable(zepCache', k,
                                               zepCache.cache[k].value, now)
                     /\ C35_Retrievable(zepCache', key, value, now)
                     /\ zepCache'.stats.evictions = zepCache.stats.evictions + 1]_vars

\* a full cache whose older entry was looked up after the younger one was
\* set, so that the order of use differs from the order of insertion, has
\* then evicted an entry
C35_Witness ==
    /\ zepCache.stats.evictions > 0
    /\ zepCache.stats.hits > 0
    /\ Len(used) = zepCache.maxSize
    /\ zepCache.maxSize > 1
    /\ lastSet[used[1]] = now
    /\ lastSet[used[Len(used)]] < lastSet[used[1]]

-----------------------------------------------------------------------------
(* C36: get(key) returns null whenever the key is absent or more than ttl    *)
(* has elapsed since the key's last set; in the expired case it removes the  *)
(* entry and decrements size; a hit does not extend the lifetime of the      *)
(* entry, so no value is returned more than ttl after its last set.          *)

C36_GetHonoursTtl ==
    [][\A key \in CacheKeys :
          CacheGet(key)
              => LET r == get(zepCache, key, now)
                     absent == key \notin DOMAIN zepCache.cache
                     expired == ~absent /\ now - lastSet[key] > zepCache.ttl
                 IN  /\ (absent \/ expired) => r.value = JsNull
                     /\ expired => /\ key \notin DOMAIN zepCache'.cache
                                   /\ zepCache'.size = zepCache.size - 1
                     /\ (~absent /\ ~expired)
                            => /\ r.value = zepCache.cache[key].value
                               /\ zepCache'.cache[key].timestamp = lastSet[key]
                               /\ zepCache'.size = zepCache.size]_vars

\* an entry was hit within its lifetime and found expired later
C36_Witness ==
    /\ zepCache.stats.hits > 0
    /\ zepCache.stats.expirations > 0
    /\ zepCache.stats.misses > zepCache.stats.expirations

-----------------------------------------------------------------------------
(* C37: for a method wrapped by cacheZepMethod and any interleaving of       *)
(* wrapped calls, once a call for an argument list has completed and stored  *)
(* its result (whatever the result, null included), every later call with    *)
(* the same arguments made before that entry expires or is evicted returns   *)
(* the stored result without invoking the original method.                   *)

C37_StoredResultServed ==
    [][\A args \in WrappedArgs :
          LET cacheKey == createCacheKey(MethodName, args)
          IN  (/\ CallWrapped(args)
               /\ cacheKey \in DOMAIN zepCache.cache
               /\ ~isExpired(zepCache, zepCache.cache[cacheKey], now))
                  => /\ calls'.pending = calls.pending
                     /\ calls'.last = [args |-> args,
                                       value |-> zepCache.cache[cacheKey].value,
                                       cached |-> TRUE]]_vars

-----------------------------------------------------------------------------
(* C40: after every operation of the cache returns, size equals the number   *)
(* of keys in the key map and the number of nodes reachable from head via    *)
(* next; head is null iff tail is null iff size is 0; head.prev and          *)
(* tail.next are null; and walking prev from tail visits the same nodes in   *)
(* reverse order.                                                            *)

\* the keys met from ptr along the field, at most fuel of them
RECURSIVE C40_Walk(_, _, _, _)
C40_Walk(c, ptr, field, fuel) ==
    IF ptr = NULL \/ fuel = 0 THEN <<>>
    ELSE IF ptr[1] \notin DOMAIN c.cache THEN <<ptr[1]>>
    ELSE <<ptr[1]>> \o C40_Walk(c, c.cache[ptr[1]][field], field, fuel - 1)

C40_Reverse(s) == [i \in 1..Len(s) |-> s[Len(s) + 1 - i]]

C40_ListWellFormed ==
    LET entries == Cardinality(DOMAIN zepCache.cache)
        forward == C40_Walk(zepCache, zepCache.head, "next", entries + 1)
        backward == C40_Walk(zepCache, zepCache.tail, "prev", entries + 1)
    IN  /\ zepCache.size = entries
        /\ Len(forward) = zepCache.size
        /\ Elements(forward) = DOMAIN zepCache.cache
        /\ (zepCache.head = NULL) <=> (zepCache.tail = NULL)
        /\ (zepCache.head = NULL) <=> (zepCache.size = 0)
        /\ zepCache.head # NULL => zepCache.cache[zepCache.head[1]].prev = NULL
        /\ zepCache.tail # NULL => zepCache.cache[zepCache.tail[1]].next = NULL
        /\ backward = C40_Reverse(forward)

\* a full list of two nodes left by an eviction, a deletion and a lookup
\* that moved the older node to the front
C40_Witness ==
    /\ zepCache.size = MaxCacheSize
    /\ zepCache.size > 1
    /\ zepCache.head # zepCache.tail
    /\ zepCache.stats.evictions > 0
    /\ zepCache.stats.hits > 0
    /\ zepCache.stats.expirations > 0
    /\ zepCache.cache[zepCache.head[1]].timestamp
           < zepCache.cache[zepCache.tail[1]].timestamp

-----------------------------------------------------------------------------
(* C38: for every input sequence and every chain of filter, map, sort and    *)
(* limit operations, singlePass(data)...execute() returns the same sequence  *)
(* as the traditional chain data.filter(...).map(...).sort(cmp).slice(0, n)  *)
(* with the same operations in the same order; with both a sort and a limit  *)
(* n it returns the n first elements of the fully sorted matching items.     *)

\* the chain of array methods, each applied to the whole result of the one before
RECURSIVE C38_Traditional(_, _)
C38_Traditional(data, operations) ==
    IF operations = <<>> THEN data
    ELSE LET op == Head(operations)
             result ==
                 CASE op.type = "filter" ->
                          SelectSeq(data, LAMBDA item : predicateFn(op.fn, item))
                   [] op.type = "map" ->
                          [i \in 1..Len(data) |-> mapperFn(op.fn, data[i])]
                   [] op.type = "sort" -> arraySort(data, op.fn)
                   [] op.type = "limit" ->
                          SubSeq(data, 1, IF op.count < Len(data) THEN op.count
                                          ELSE Len(data))
         IN  C38_Traditional(result, Tail(operations))

C38_SameAsTraditionalChain ==
    pass.results # NULL
        => pass.results[1] = C38_Traditional(pass.data, pass.operations)

-----------------------------------------------------------------------------
(* C39: for every processor with any mix of filter and map operations,       *)
(* some() returns true exactly when count() > 0, and every() returns true    *)
(* exactly when count() equals the number of input items.                    *)

C39_FiltersAndMapsOnly ==
    \A i \in 1..Len(pass.operations) : pass.operations[i].type \in {"filter", "map"}

C39_SomeEveryAgreeWithCount ==
    (C39_FiltersAndMapsOnly /\ pass.count # NULL /\ pass.some # NULL /\ pass.every # NULL)
        => /\ pass.some[1] <=> (pass.count[1] > 0)
           /\ pass.every[1] <=> (pass.count[1] = Len(pass.data))

====
